---- MODULE Spec2Model ----
(***************************************************************************)
(* Class service of miao-error-book (server/router/api/v1/class_service.go) *)
(* over the class store (store/class.go) and its three drivers             *)
(* (store/db/mysql, store/db/sqlite, store/db/postgres).                   *)
(*                                                                         *)
(* The state is the content of the class, class_member,                    *)
(* class_tag_template and class_memo_visibility tables, the driver the     *)
(* profile selects, the requests                                           *)
(* that have passed their checks but not yet written (the handlers are not *)
(* transactional: a check and the write that follows it are separate       *)
(* statements), and the outcome of the last call that returned.            *)
(*                                                                         *)
(* A SQL statement is modelled by its relational meaning under the schema  *)
(* of store/migration (keys, UNIQUE constraints, ON DELETE CASCADE).       *)
(***************************************************************************)
EXTENDS Integers, Sequences, FiniteSets, TLC

(* ------------------------------ bounds --------------------------------- *)

\* number of class rows ever inserted (ids are auto-increment, never reused)
MaxClasses == 1

\* number of class_member rows ever inserted
MaxMembers == 2

\* number of class_tag_template rows ever inserted
MaxTemplates == 1

\* number of handlers that may sit between their check and their write
MaxInflight == 2

\* classes in the table when pages of it are listed
MaxListed == 3

\* class_tag_template rows ever inserted by requests that overtake each other
MaxRaceTemplates == 2

(* ------------------------------ users ---------------------------------- *)

\* user ids of the user table; 0 stands for "no authenticated user"
NoUser == 0

UserIDs == {1, 2, 3}

Callers == UserIDs \cup {NoUser}

\* store.User.Role: user 1 is the administrator, the others are regular users
UserRole(u) == IF u = 1 THEN "ADMIN" ELSE "USER"

(* --------------------------- status codes ------------------------------ *)

OK == "OK"

InvalidArgument == "InvalidArgument"

NotFound == "NotFound"

PermissionDenied == "PermissionDenied"

Unauthenticated == "Unauthenticated"

AlreadyExists == "AlreadyExists"

FailedPrecondition == "FailedPrecondition"

Internal == "Internal"

(* --------------------------- value domains ----------------------------- *)

Nil == "nil"

ClassVisibilityPublic == "PUBLIC"

ClassVisibilityProtected == "PROTECTED"

ClassVisibilityPrivate == "PRIVATE"

\* v1pb.ClassVisibility values a request can carry
PbVisibilities == {"CLASS_VISIBILITY_UNSPECIFIED", "CLASS_PUBLIC", "CLASS_PROTECTED", "CLASS_PRIVATE"}

\* v1pb.ClassMemberRole values a request can carry
PbRoles == {"CLASS_MEMBER_ROLE_UNSPECIFIED", "TEACHER", "STUDENT"}

\* class ids a CreateClass request can carry: Nil asks for a generated one,
\* "-x" is a custom id the format check refuses
ClassIdInputs == {Nil, "-x"}

\* display names of classes and of tag templates
NameInputs == {"", "n2"}

\* the name field of the class of a CreateClass request
ReqNameInputs == {"", "n1"}

\* update masks an UpdateClass request can carry
ClassMaskInputs == {<<>>, <<"visibility">>}

\* update masks that name every path UpdateClass knows, alone and together
UpdateMaskInputs ==
    {<<"name">>, <<"display_name">>, <<"description">>, <<"visibility">>, <<"invite_code">>, <<"settings">>,
     <<"display_name", "description", "visibility">>, <<"settings", "create_time">>}

VARIABLES driver, classes, nextClassID, members, nextMemberID, templates, nextTemplateID, visibilities, nextVisibilityID,
          inflight, last

vars == <<driver, classes, nextClassID, members, nextMemberID, templates, nextTemplateID, visibilities, nextVisibilityID, inflight, last>>

storeVars == <<classes, nextClassID, members, nextMemberID, templates, nextTemplateID, visibilities, nextVisibilityID>>


(* ------------------------- strings and names --------------------------- *)

\* decimal rendering of the ids the model can reach
Digits == <<"1", "2", "3", "4", "5", "6", "7", "8", "9", "10", "11", "12">>

\* inverse of Digits; 0 when the text is not a number
ConvertStringToInt32(str) == IF \E n \in 1..Len(Digits) : Digits[n] = str THEN CHOOSE n \in 1..Len(Digits) : Digits[n] = str ELSE 0

\* strings.TrimSpace on the class ids of ClassIdInputs
TrimSpace(str) == IF str = " a" THEN "a" ELSE str

\* shortuuid.New(): a fresh identifier, distinct for every class created
GeneratedUID(n) == "g" \o Digits[n]

\* base.UIDMatcher (alphanumerics and inner hyphens) on the strings of the model
UIDMatcher(str) == str \in {"a", "b"} \cup {GeneratedUID(n) : n \in 1..Len(Digits)}

ClassNamePrefix == "classes/"

UserNamePrefix == "users/"

\* a class name printed without its collection prefix
ClassNameNoPrefix(uid) == <<uid>>

\* a resource name is the sequence of its prefix and id parts
ClassName(uid) == <<ClassNamePrefix, uid>>

MemberName(uid, id) == <<ClassNamePrefix, uid, "members/", Digits[id]>>

TemplateName(uid, id) == <<ClassNamePrefix, uid, "tagTemplates/", Digits[id]>>

\* ExtractClassUIDFromName: the uid, or Nil when the prefix is wrong
ExtractClassUIDFromName(name) == IF Len(name) >= 1 /\ name[1] = ClassNamePrefix THEN (IF Len(name) = 2 THEN name[2] ELSE "") ELSE Nil

\* ExtractClassMemberIDFromName: the member id, or 0 on a malformed name
ExtractClassMemberIDFromName(name) ==
    IF Len(name) = 4 /\ name[1] = ClassNamePrefix /\ name[3] = "members/" /\ UIDMatcher(name[2])
    THEN ConvertStringToInt32(name[4]) ELSE 0

\* ExtractClassTagTemplateIDFromName: the template id, or 0 on a malformed name
ExtractClassTagTemplateIDFromName(name) ==
    IF Len(name) = 4 /\ name[1] = ClassNamePrefix /\ name[3] = "tagTemplates/" /\ UIDMatcher(name[2])
    THEN ConvertStringToInt32(name[4]) ELSE 0

\* class resource names a request can carry
ClassNameInputs == {ClassName(GeneratedUID(n)) : n \in 1..MaxClasses} \cup {ClassName("a"), <<UserNamePrefix, "a">>}

MemberNameInputs == {MemberName("a", n) : n \in 1..MaxMembers} \cup {<<ClassNamePrefix, "a">>}

TemplateNameInputs == {TemplateName("a", n) : n \in 1..MaxTemplates} \cup {<<ClassNamePrefix, "a">>}

(* ------------------------------ drivers -------------------------------- *)

Drivers == {"mysql", "sqlite", "postgres"}

\* the postgres driver returns "not implemented" for every class_member and
\* class_tag_template method
NotImplemented(d) == d = "postgres"

\* text of the error each engine raises on a UNIQUE violation
UniqueViolationText(d) == CASE d = "mysql" -> "Error 1062 (23000): Duplicate entry"
                            [] d = "sqlite" -> "UNIQUE constraint failed"
                            [] OTHER -> "duplicate key value violates unique constraint"

\* strings.Contains(err.Error(), "duplicate") || strings.Contains(err.Error(), "UNIQUE")
IsDuplicateErr(text) == text \in {"UNIQUE constraint failed", "duplicate key value violates unique constraint"}


(* --------------------- filter compiler (plugin/filter) ----------------- *)

\* identifiers of the class catalog and the column each one maps to
CatalogFields == {"visibility", "name"}

CmpOps == {"==", "!="}

BoolOps == {"&&", "||"}

\* filter expressions a ListClasses request can carry, as token sequences
FilterInputs == {
    <<>>,
    <<"visibility", "!=", "PRIVATE">>,
    <<"name", "!=", "n1", "||", "name", "!=", "n2">>,
    <<"secret", "==", "x">> }

\* parser and binder: comparison (boolOp comparison)*, identifiers from the catalog
RECURSIVE WellFormed(_)
WellFormed(toks) ==
    /\ Len(toks) >= 3
    /\ toks[1] \in CatalogFields
    /\ toks[2] \in CmpOps
    /\ toks[3] \notin CmpOps \cup BoolOps
    /\ \/ Len(toks) = 3
       \/ Len(toks) > 4 /\ toks[4] \in BoolOps /\ WellFormed(SubSeq(toks, 5, Len(toks)))

\* renderer: every literal becomes a placeholder, its value a parameter
RECURSIVE RenderFragment(_)
RenderFragment(toks) ==
    IF Len(toks) < 3 THEN <<>>
    ELSE <<toks[1], IF toks[2] = "==" THEN "=" ELSE "<>", "?">>
         \o (IF Len(toks) > 4 THEN <<IF toks[4] = "&&" THEN "AND" ELSE "OR">> \o RenderFragment(SubSeq(toks, 5, Len(toks))) ELSE <<>>)

RECURSIVE RenderParameters(_)
RenderParameters(toks) ==
    IF Len(toks) < 3 THEN <<>>
    ELSE <<toks[3]>> \o (IF Len(toks) > 4 THEN RenderParameters(SubSeq(toks, 5, Len(toks))) ELSE <<>>)

\* engine.CompileToStatement: a statement, or an error and no statement
CompileToStatement(toks) ==
    IF WellFormed(toks)
    THEN [ok |-> TRUE, fragment |-> RenderFragment(toks), parameters |-> RenderParameters(toks)]
    ELSE [ok |-> FALSE, fragment |-> <<>>, parameters |-> <<>>]

\* validateClassFilter: ok is TRUE when the filter is accepted, compiled is
\* TRUE when engine.CompileToStatement was called on the way
validateClassFilter(d, toks) ==
    IF toks = <<>> THEN [ok |-> FALSE, compiled |-> FALSE]
    ELSE IF d \notin Drivers THEN [ok |-> FALSE, compiled |-> FALSE]
    ELSE [ok |-> CompileToStatement(toks).ok, compiled |-> TRUE]

\* validateFilter: TRUE when the filter is accepted
validateFilter(d, toks) ==
    /\ toks # <<>>
    /\ d \in Drivers
    /\ CompileToStatement(toks).ok

(* ------------------------- the class table ----------------------------- *)

\* absent fields of a FindClass
NoID == 0

NoLimit == -1

FindClass == [id |-> NoID, uid |-> Nil, visibility |-> Nil, filters |-> <<>>, limit |-> NoLimit, offset |-> NoLimit]

\* the WHERE clause ListClasses builds: its conditions, in order
ListClassesWhere(find) ==
    <<<<"1 = 1">>>>
    \o (IF find.id # NoID THEN <<<<"id", "=", "?">>>> ELSE <<>>)
    \o (IF find.uid # Nil THEN <<<<"uid", "=", "?">>>> ELSE <<>>)
    \o (IF find.visibility # Nil THEN <<<<"visibility", "=", "?">>>> ELSE <<>>)
    \o find.filters

\* args of the query, one per placeholder the driver wrote
ListClassesArgs(find) ==
    (IF find.id # NoID THEN <<find.id>> ELSE <<>>)
    \o (IF find.uid # Nil THEN <<find.uid>> ELSE <<>>)
    \o (IF find.visibility # Nil THEN <<find.visibility>> ELSE <<>>)
    \o (IF find.limit # NoLimit THEN <<find.limit>> ELSE <<>>)
    \o (IF find.offset # NoLimit THEN <<find.offset>> ELSE <<>>)

\* strings.Join(where, " AND ")
RECURSIVE JoinAnd(_)
JoinAnd(conds) ==
    IF conds = <<>> THEN <<>>
    ELSE IF Len(conds) = 1 THEN conds[1]
    ELSE conds[1] \o <<"AND">> \o JoinAnd(Tail(conds))

\* the text of the query ListClasses sends to the engine
ListClassesQuery(find) ==
    <<"SELECT * FROM class WHERE">> \o JoinAnd(ListClassesWhere(find)) \o <<"ORDER BY", "created_ts DESC">>
    \o (IF find.limit # NoLimit THEN <<"LIMIT", "?">> ELSE <<>>)
    \o (IF find.offset # NoLimit THEN <<"OFFSET", "?">> ELSE <<>>)

RowField(row, col) ==
    CASE col = "id" -> row.id
      [] col = "uid" -> row.uid
      [] col = "visibility" -> row.visibility
      [] col = "name" -> row.name
      [] OTHER -> Nil

Compare(left, op, right) == IF op \in {"=", "=="} THEN left = right ELSE left # right

\* the engine's reading of a WHERE clause on one row: AND binds tighter than
\* OR, placeholders take the args in order
RECURSIVE EvalWhere(_, _, _, _, _, _)
EvalWhere(toks, args, row, i, k, acc) ==
    IF i > Len(toks) THEN acc.res \/ acc.cur
    ELSE IF toks[i] \in {"AND", "&&"} THEN EvalWhere(toks, args, row, i + 1, k, acc)
    ELSE IF toks[i] \in {"OR", "||"} THEN EvalWhere(toks, args, row, i + 1, k, [res |-> acc.res \/ acc.cur, cur |-> TRUE])
    ELSE IF toks[i] = "1 = 1" THEN EvalWhere(toks, args, row, i + 1, k, acc)
    ELSE IF i + 2 > Len(toks) THEN FALSE
    ELSE LET bound == toks[i + 2] = "?"
             holds == IF bound THEN Compare(RowField(row, toks[i]), toks[i + 1], args[k])
                      ELSE Compare(RowField(row, toks[i]), toks[i + 1], toks[i + 2])
         IN  EvalWhere(toks, args, row, i + 3, IF bound THEN k + 1 ELSE k, [res |-> acc.res, cur |-> acc.cur /\ holds])

\* the rows of a set in the order of ORDER BY created_ts DESC (newest id first)
RECURSIVE NewestFirst(_)
NewestFirst(rows) ==
    IF rows = {} THEN <<>>
    ELSE LET top == CHOOSE r \in rows : \A q \in rows : q.id <= r.id
         IN  <<top>> \o NewestFirst(rows \ {top})

\* LIMIT and OFFSET on an ordered result
Page(rowSeq, limit, offset) ==
    LET from == IF offset = NoLimit THEN 1 ELSE offset + 1
        to == IF limit = NoLimit THEN Len(rowSeq) ELSE IF from + limit - 1 < Len(rowSeq) THEN from + limit - 1 ELSE Len(rowSeq)
    IN  SubSeq(rowSeq, from, to)

\* driver ListClasses: the rows the query returns
ListClassesRows(find) ==
    LET toks == JoinAnd(ListClassesWhere(find))
        hit == {r \in classes : EvalWhere(toks, ListClassesArgs(find), r, 1, 1, [res |-> FALSE, cur |-> TRUE])}
    IN  Page(NewestFirst(hit), find.limit, find.offset)

\* a query that carries raw filter text is one the engine may refuse to parse
QueryMayFail(find) == find.filters # <<>>

\* a nil *store.Class
NoClass == [id |-> NoID]

\* Store.GetClass: the first row, or nil
GetClass(find) == LET list == ListClassesRows(find) IN IF list = <<>> THEN NoClass ELSE list[1]

GetClassByUID(uid) == GetClass([FindClass EXCEPT !.uid = uid])

GetClassByID(id) == GetClass([FindClass EXCEPT !.id = id])


(* ---------------------- the class_member table ------------------------- *)

\* a nil *store.ClassMember
NoMember == [id |-> NoID]

\* driver ListClassMembers by class and user (0: any), newest first
ListClassMembers(classID, userID) ==
    NewestFirst({m \in members : (classID = NoID \/ m.classID = classID) /\ (userID = NoID \/ m.userID = userID)})

\* Store.GetClassMember by id: the row, or nil
GetClassMember(id) == IF \E m \in members : m.id = id THEN CHOOSE m \in members : m.id = id ELSE NoMember

(* -------------------- the class_tag_template table --------------------- *)

\* a nil *store.ClassTagTemplate
NoTemplate == [id |-> NoID]

\* Store.GetClassTagTemplate by id
GetClassTagTemplate(id) == IF \E t \in templates : t.id = id THEN CHOOSE t \in templates : t.id = id ELSE NoTemplate

\* Store.GetClassTagTemplate by class and name
GetClassTagTemplateByName(classID, name) ==
    LET hit == {t \in templates : t.classID = classID /\ t.name = name}
    IN  IF hit = {} THEN NoTemplate ELSE NewestFirst(hit)[1]

(* --------------------------- permissions ------------------------------- *)

isSuperUser(user) == user # NoUser /\ UserRole(user) = "ADMIN"

canCreateClass(user) == user # NoUser

\* canManageClass with the role and creator test lost: every signed-in user manages
canManageClassSignedIn(user, class) == user # NoUser /\ class.id # NoID

canManageClass(user, class) ==
    /\ user # NoUser
    /\ class.id # NoID
    /\ (isSuperUser(user) \/ class.creator = user)

\* isClassMember without the creator case: member rows only
isClassMemberRowsOnly(userID, classID) ==
    IF GetClassByID(classID).id = NoID THEN [err |-> TRUE, member |-> FALSE]
    ELSE IF NotImplemented(driver) THEN [err |-> FALSE, member |-> FALSE]
    ELSE [err |-> FALSE, member |-> ListClassMembers(classID, userID) # <<>>]

\* isClassMember: [err, member]; a failing member query counts as "no member"
isClassMember(userID, classID) ==
    LET class == GetClassByID(classID)
    IN  IF class.id = NoID THEN [err |-> TRUE, member |-> FALSE]
        ELSE IF class.creator = userID THEN [err |-> FALSE, member |-> TRUE]
        ELSE IF NotImplemented(driver) THEN [err |-> FALSE, member |-> FALSE]
        ELSE [err |-> FALSE, member |-> ListClassMembers(classID, userID) # <<>>]

\* hasClassMembers: a failing member query counts as "no members"
hasClassMembers(classID) ==
    IF NotImplemented(driver) THEN FALSE ELSE ListClassMembers(classID, NoID) # <<>>

\* canViewClass with the PRIVATE case lost: every signed-in user may view
canViewClassSignedIn(user, class) ==
    IF class.id = NoID THEN [err |-> FALSE, view |-> FALSE]
    ELSE IF class.visibility = ClassVisibilityPublic THEN [err |-> FALSE, view |-> TRUE]
    ELSE [err |-> FALSE, view |-> user # NoUser]

\* canViewClass: [err, view]
canViewClass(user, class) ==
    IF class.id = NoID THEN [err |-> FALSE, view |-> FALSE]
    ELSE IF class.visibility = ClassVisibilityPublic THEN [err |-> FALSE, view |-> TRUE]
    ELSE IF user = NoUser THEN [err |-> FALSE, view |-> FALSE]
    ELSE IF isSuperUser(user) THEN [err |-> FALSE, view |-> TRUE]
    ELSE IF class.creator = user THEN [err |-> FALSE, view |-> TRUE]
    ELSE LET im == isClassMember(user, class.id)
         IN  IF im.err THEN [err |-> TRUE, view |-> FALSE]
             ELSE IF im.member THEN [err |-> FALSE, view |-> TRUE]
             ELSE IF class.visibility = ClassVisibilityProtected THEN [err |-> FALSE, view |-> TRUE]
             ELSE [err |-> FALSE, view |-> FALSE]

(* --------------------------- conversions ------------------------------- *)

\* a conversion that lets every value through
convertClassVisibilityToStoreUnchecked(v) ==
    CASE v = "CLASS_PUBLIC" -> ClassVisibilityPublic
      [] v = "CLASS_PROTECTED" -> ClassVisibilityProtected
      [] v = "CLASS_PRIVATE" -> ClassVisibilityPrivate
      [] OTHER -> v

\* convertClassVisibilityToStore: the store value, or Nil for an invalid one
convertClassVisibilityToStore(v) ==
    CASE v = "CLASS_PUBLIC" -> ClassVisibilityPublic
      [] v = "CLASS_PROTECTED" -> ClassVisibilityProtected
      [] v = "CLASS_PRIVATE" -> ClassVisibilityPrivate
      [] OTHER -> Nil

\* convertClassMemberRoleToStore: the store value, or Nil for an invalid one
convertClassMemberRoleToStore(r) ==
    CASE r = "TEACHER" -> "TEACHER"
      [] r = "ASSISTANT" -> "ASSISTANT"
      [] r = "STUDENT" -> "STUDENT"
      [] r = "PARENT" -> "PARENT"
      [] OTHER -> Nil

\* convertClassMemberRoleFromStore: the protobuf role of a stored role
convertClassMemberRoleFromStore(r) ==
    CASE r = "TEACHER" -> "TEACHER"
      [] r = "ASSISTANT" -> "ASSISTANT"
      [] r = "STUDENT" -> "STUDENT"
      [] r = "PARENT" -> "PARENT"
      [] OTHER -> "CLASS_MEMBER_ROLE_UNSPECIFIED"

\* a nil *v1pb.ClassSettings; an optional field is the empty set when unset
\* and the set of its value when set
NoSettings ==
    [nil |-> TRUE, studentMemoVisibility |-> {}, allowAnonymous |-> {},
     defaultStudentVisibility |-> "CLASS_VISIBILITY_UNSPECIFIED", enableTagTemplates |-> {},
     maxMembers |-> {}, requireMemberApproval |-> {}]

\* a nil *storepb.ClassSettings; otherwise each key of the Struct holds the
\* set of its value, the empty set when the key is absent
NoStoreSettings ==
    [nil |-> TRUE, student_memo_visibility |-> {}, allow_anonymous |-> {},
     default_student_visibility |-> {}, enable_tag_templates |-> {},
     max_members |-> {}, require_member_approval |-> {}]

\* convertSettingsToStore: one key of the Struct for every field that is set
convertSettingsToStore(s) ==
    IF s.nil THEN NoStoreSettings
    ELSE [nil |-> FALSE,
          student_memo_visibility |-> s.studentMemoVisibility,
          allow_anonymous |-> s.allowAnonymous,
          default_student_visibility |->
              IF s.defaultStudentVisibility # "CLASS_VISIBILITY_UNSPECIFIED" THEN {s.defaultStudentVisibility} ELSE {},
          enable_tag_templates |-> s.enableTagTemplates,
          max_members |-> s.maxMembers,
          require_member_approval |-> s.requireMemberApproval]

\* convertSettingsFromStore that fills in FALSE for an absent allow_anonymous
convertSettingsFromStoreDefaulting(s) ==
    IF s.nil THEN NoSettings
    ELSE [nil |-> FALSE,
          studentMemoVisibility |-> s.student_memo_visibility,
          allowAnonymous |-> IF s.allow_anonymous = {} THEN {FALSE} ELSE s.allow_anonymous,
          defaultStudentVisibility |->
              IF s.default_student_visibility \subseteq {"CLASS_PUBLIC", "CLASS_PROTECTED", "CLASS_PRIVATE"}
                 /\ s.default_student_visibility # {}
              THEN CHOOSE v \in s.default_student_visibility : TRUE
              ELSE "CLASS_VISIBILITY_UNSPECIFIED",
          enableTagTemplates |-> s.enable_tag_templates,
          maxMembers |-> s.max_members,
          requireMemberApproval |-> s.require_member_approval]

\* convertSettingsFromStore: nil for nil settings, else the fields read back
\* from the keys of the Struct
convertSettingsFromStore(s) ==
    IF s.nil THEN NoSettings
    ELSE [nil |-> FALSE,
          studentMemoVisibility |-> s.student_memo_visibility,
          allowAnonymous |-> s.allow_anonymous,
          defaultStudentVisibility |->
              IF s.default_student_visibility \subseteq {"CLASS_PUBLIC", "CLASS_PROTECTED", "CLASS_PRIVATE"}
                 /\ s.default_student_visibility # {}
              THEN CHOOSE v \in s.default_student_visibility : TRUE
              ELSE "CLASS_VISIBILITY_UNSPECIFIED",
          enableTagTemplates |-> s.enable_tag_templates,
          maxMembers |-> s.max_members,
          requireMemberApproval |-> s.require_member_approval]

\* the settings column the drivers write: the text {} for nil settings, else
\* the JSON object with the one member "settings"
SettingsColumn(s) == IF s.nil THEN <<>> ELSE <<"settings", s>>

\* the settings the drivers scan from the column: nil for the text {}
ScanSettings(column) == IF column = <<>> THEN NoStoreSettings ELSE column[2]

\* convertClassVisibilityFromStore: the protobuf visibility of a stored one
convertClassVisibilityFromStore(v) ==
    CASE v = ClassVisibilityPublic -> "CLASS_PUBLIC"
      [] v = ClassVisibilityProtected -> "CLASS_PROTECTED"
      [] v = ClassVisibilityPrivate -> "CLASS_PRIVATE"
      [] OTHER -> "CLASS_VISIBILITY_UNSPECIFIED"

\* convertClassFromStore: the Class message of a class row
convertClassFromStore(class) ==
    [name |-> ClassName(class.uid),
     uid |-> class.uid,
     displayName |-> class.name,
     description |-> class.description,
     creator |-> <<UserNamePrefix, Digits[class.creator]>>,
     visibility |-> convertClassVisibilityFromStore(class.visibility),
     inviteCode |-> class.inviteCode,
     settings |-> convertSettingsFromStore(class.settings)]

\* generateInviteCode: a random code, taken fresh for every class
generateInviteCode(n) == "c" \o Digits[n]

\* settings a request can carry: none, an empty message, one field, several fields
SettingsInputs ==
    {NoSettings,
     [NoSettings EXCEPT !.nil = FALSE],
     [NoSettings EXCEPT !.nil = FALSE, !.studentMemoVisibility = {FALSE}],
     [NoSettings EXCEPT !.nil = FALSE, !.allowAnonymous = {TRUE}, !.defaultStudentVisibility = "CLASS_PROTECTED", !.maxMembers = {30}]}

(* ------------------------------- state --------------------------------- *)

Idle == [op |-> "idle"]

\* the outcome of a call: who called, the row the request resolved to (NoID:
\* none), the status code, the response
Result(op, caller, target, code, out) == [op |-> op, caller |-> caller, target |-> target, code |-> code, out |-> out]

\* no response waiting to be read
NoCall == Result("none", NoUser, NoID, OK, Nil)

Init ==
    /\ driver \in Drivers
    /\ classes = {}
    /\ nextClassID = 1
    /\ members = {}
    /\ nextMemberID = 1
    /\ templates = {}
    /\ nextTemplateID = 1
    /\ visibilities = {}
    /\ nextVisibilityID = 1
    /\ inflight = [s \in 1..MaxInflight |-> Idle]
    /\ last = NoCall


(* ----------------------------- CreateClass ----------------------------- *)

\* the uid CreateClass settles on
CreateClassUID(classId) == IF classId # Nil /\ classId # "" THEN TrimSpace(classId) ELSE GeneratedUID(nextClassID)

\* the row CreateClass hands to the store
CreateClassRow(caller, classId, reqName, displayName, description, pbVisibility, invite, settings) ==
    [id |-> nextClassID,
     uid |-> CreateClassUID(classId),
     name |-> IF displayName = "" THEN reqName ELSE displayName,
     description |-> description,
     creator |-> caller,
     visibility |-> convertClassVisibilityToStore(pbVisibility),
     inviteCode |-> IF invite = Nil \/ invite = "" THEN generateInviteCode(nextClassID) ELSE invite,
     settings |-> ScanSettings(SettingsColumn(convertSettingsToStore(settings)))]

\* driver CreateClass: TRUE when the INSERT violates UNIQUE(uid) or UNIQUE(invite_code)
CreateClassConflict(row) == \E c \in classes : c.uid = row.uid \/ c.inviteCode = row.inviteCode

CreateClassCode(caller, classId, reqName, displayName, description, pbVisibility, invite, settings) ==
    IF caller = NoUser THEN Unauthenticated
    ELSE IF reqName = "" THEN InvalidArgument
    ELSE IF classId # Nil /\ classId # "" /\ ~UIDMatcher(TrimSpace(classId)) THEN InvalidArgument
    ELSE IF convertClassVisibilityToStore(pbVisibility) = Nil THEN InvalidArgument
    ELSE IF ~canCreateClass(caller) THEN PermissionDenied
    ELSE IF CreateClassConflict(CreateClassRow(caller, classId, reqName, displayName, description, pbVisibility, invite, settings))
         THEN (IF IsDuplicateErr(UniqueViolationText(driver)) THEN AlreadyExists ELSE Internal)
    ELSE OK

CreateClass(caller, classId, reqName, displayName, description, pbVisibility, invite, settings) ==
    LET code == CreateClassCode(caller, classId, reqName, displayName, description, pbVisibility, invite, settings)
        row == CreateClassRow(caller, classId, reqName, displayName, description, pbVisibility, invite, settings)
    IN  /\ nextClassID <= MaxClasses
        /\ IF code = OK
           THEN /\ classes' = classes \cup {row}
                /\ nextClassID' = nextClassID + 1
                /\ last' = [op |-> "CreateClass", caller |-> caller, target |-> row.id, code |-> OK, out |-> ClassName(row.uid),
                             request |-> [classId |-> classId, name |-> reqName, displayName |-> displayName,
                                          description |-> description, visibility |-> pbVisibility, invite |-> invite,
                                          settings |-> settings]]
           ELSE /\ UNCHANGED <<classes, nextClassID>>
                /\ last' = Result("CreateClass", caller, NoID, code, <<>>)
        /\ UNCHANGED <<driver, visibilities, nextVisibilityID, members, nextMemberID, templates, nextTemplateID, inflight>>

(* ------------------------------ GetClass ------------------------------- *)

\* the class a class resource name stands for, or nil
ResolveClass(name) ==
    LET uid == ExtractClassUIDFromName(name)
    IN  IF uid = Nil THEN NoClass ELSE GetClassByUID(uid)

GetClassCode(caller, name) ==
    LET uid == ExtractClassUIDFromName(name)
        class == GetClassByUID(uid)
        cv == canViewClass(caller, class)
    IN  IF uid = Nil THEN InvalidArgument
        ELSE IF class.id = NoID THEN NotFound
        ELSE IF cv.err THEN Internal
        ELSE IF ~cv.view THEN PermissionDenied
        ELSE OK

\* the handler GetClass; its result carries the class it returns
GetClassCall(caller, name) ==
    LET code == GetClassCode(caller, name)
        class == ResolveClass(name)
    IN  /\ last' = Result("GetClass", caller, class.id, code, IF code = OK THEN class ELSE NoClass)
        /\ UNCHANGED <<driver, storeVars, inflight>>


(* ------------------- statements of the class drivers ------------------- *)

\* the marker a driver writes for the n-th argument of a statement
placeholder(d, n) == IF d = "postgres" THEN "$" \o Digits[n] ELSE "?"

\* a statement under construction: its text, as tokens, and its arguments
Statement(text, args) == [built |-> TRUE, text |-> text, args |-> args]

\* Bind with the argument left off the list
BindTextOnly(d, st, pre, val, post) == Statement(st.text \o pre \o <<placeholder(d, Len(st.args) + 1)>> \o post, st.args)

\* append(where, "col = "+placeholder(len(args)+1)), append(args, val): the
\* text gets the marker of the next argument, the list gets the argument
Bind(d, st, pre, val, post) == Statement(st.text \o pre \o <<placeholder(d, Len(st.args) + 1)>> \o post, Append(st.args, val))

\* driver ListClasses up to QueryContext: the query and its args, from every
\* field of the store.FindClass the drivers read (NoID, Nil, <<>>, NoLimit:
\* the field is unset)
ListClassesStatement(d, find) ==
    LET RECURSIVE BindAll(_, _)
        BindAll(st, vals) == IF vals = <<>> THEN st ELSE BindAll(Bind(d, st, <<>>, Head(vals), <<>>), Tail(vals))
        RECURSIVE Raw(_, _)
        Raw(st, filters) == IF filters = <<>> THEN st ELSE Raw(Statement(st.text \o <<"AND">> \o Head(filters), st.args), Tail(filters))
        s0 == Statement(<<"SELECT * FROM class WHERE", "1 = 1">>, <<>>)
        s1 == IF find.id # NoID THEN Bind(d, s0, <<"AND", "id", "=">>, find.id, <<>>) ELSE s0
        s2 == IF find.uid # Nil THEN Bind(d, s1, <<"AND", "uid", "=">>, find.uid, <<>>) ELSE s1
        s3 == IF find.uidList # <<>>
              THEN LET in == BindAll(Statement(s2.text \o <<"AND", "uid IN (">>, s2.args), find.uidList)
                   IN  Statement(in.text \o <<")">>, in.args)
              ELSE s2
        s4 == IF find.creatorID # NoID THEN Bind(d, s3, <<"AND", "creator_id", "=">>, find.creatorID, <<>>) ELSE s3
        s5 == IF find.visibility # Nil THEN Bind(d, s4, <<"AND", "visibility", "=">>, find.visibility, <<>>) ELSE s4
        s6 == IF find.inviteCode # Nil THEN Bind(d, s5, <<"AND", "invite_code", "=">>, find.inviteCode, <<>>) ELSE s5
        s7 == IF find.memberID # NoID
              THEN Bind(d, s6, <<"AND", "id IN (SELECT class_id FROM class_member WHERE", "user_id", "=">>, find.memberID, <<")">>)
              ELSE s6
        s8 == Raw(s7, find.filters)
        s9 == Statement(s8.text \o <<"ORDER BY", IF find.orderBy # "" THEN find.orderBy ELSE "created_ts DESC">>, s8.args)
        s10 == IF find.limit # NoLimit THEN Bind(d, s9, <<"LIMIT">>, find.limit, <<>>) ELSE s9
    IN  IF find.offset # NoLimit THEN Bind(d, s10, <<"OFFSET">>, find.offset, <<>>) ELSE s10

\* driver UpdateClass up to ExecContext: the statement and its args, or no
\* statement when the update sets no field
UpdateClassStatement(d, update) ==
    LET Sep(st) == IF st.args = <<>> THEN <<>> ELSE <<",">>
        s0 == Statement(<<"UPDATE class SET">>, <<>>)
        s1 == IF update.uid # Nil THEN Bind(d, s0, Sep(s0) \o <<"uid", "=">>, update.uid, <<>>) ELSE s0
        s2 == IF update.name # Nil THEN Bind(d, s1, Sep(s1) \o <<"name", "=">>, update.name, <<>>) ELSE s1
        s3 == IF update.description # Nil THEN Bind(d, s2, Sep(s2) \o <<"description", "=">>, update.description, <<>>) ELSE s2
        s4 == IF update.visibility # Nil THEN Bind(d, s3, Sep(s3) \o <<"visibility", "=">>, update.visibility, <<>>) ELSE s3
        s5 == IF update.inviteCode # Nil THEN Bind(d, s4, Sep(s4) \o <<"invite_code", "=">>, update.inviteCode, <<>>) ELSE s4
        s6 == IF ~update.settings.nil THEN Bind(d, s5, Sep(s5) \o <<"settings", "=">>, SettingsColumn(update.settings), <<>>) ELSE s5
    IN  IF s6.args = <<>> THEN [built |-> FALSE, text |-> <<>>, args |-> <<>>]
        ELSE LET all == Append(s6.args, update.id)
             IN  Statement(s6.text \o <<",", "updated_ts = CURRENT_TIMESTAMP", "WHERE", "id", "=", placeholder(d, Len(all))>>, all)

(* ----------------------------- ListClasses ----------------------------- *)

DefaultPageSize == 10

MaxPageSize == 1000

\* a v1pb.PageToken as unmarshalPageToken reads it; ok is FALSE for a token that does not unmarshal
PageToken(limit, offset) == [ok |-> TRUE, limit |-> limit, offset |-> offset]

NoPageToken == [ok |-> TRUE, limit |-> 0, offset |-> -1]

BadPageToken == [ok |-> FALSE, limit |-> 0, offset |-> 0]

PageTokenInputs == {NoPageToken, BadPageToken}

\* limit of the page: from the token when there is one, else from page_size; clamped
PageLimit(pageSize, token) ==
    LET raw == IF token # NoPageToken THEN token.limit ELSE pageSize
        low == IF raw <= 0 THEN DefaultPageSize ELSE raw
    IN  IF low > MaxPageSize THEN MaxPageSize ELSE low

PageOffset(token) == IF token # NoPageToken THEN token.offset ELSE 0

\* the FindClass ListClasses hands to the store
ListClassesFind(caller, filter, pageSize, token) ==
    [FindClass EXCEPT !.filters = IF filter # <<>> THEN <<filter>> ELSE <<>>,
                      !.limit = PageLimit(pageSize, token) + 1,
                      !.offset = PageOffset(token),
                      !.visibility = IF caller = NoUser THEN ClassVisibilityPublic ELSE Nil]

\* ListClasses with the in-memory pass left out: the rows as the store returned them
FilterViewableSkipped(caller, rowSeq) == rowSeq

\* the in-memory pass over the rows of the store: those canViewClass admits
RECURSIVE FilterViewable(_, _)
FilterViewable(caller, rowSeq) ==
    IF rowSeq = <<>> THEN <<>>
    ELSE (IF canViewClass(caller, rowSeq[1]).view THEN <<rowSeq[1]>> ELSE <<>>) \o FilterViewable(caller, Tail(rowSeq))

\* ListClasses with the validation of the filter left out
ListClassesCodeUnvalidated(caller, filter, pageSize, token, engineOK) ==
    IF ~token.ok THEN InvalidArgument
    ELSE IF QueryMayFail(ListClassesFind(caller, filter, pageSize, token)) /\ ~engineOK THEN Internal
    ELSE OK

\* ListClasses with the validation run on every filter, the empty one included
ListClassesCodeValidatingEmpty(caller, filter, pageSize, token, engineOK) ==
    IF ~validateFilter(driver, filter) THEN InvalidArgument
    ELSE IF ~token.ok THEN InvalidArgument
    ELSE OK

ListClassesCode(caller, filter, pageSize, token, engineOK) ==
    IF filter # <<>> /\ ~validateFilter(driver, filter) THEN InvalidArgument
    ELSE IF ~token.ok THEN InvalidArgument
    ELSE IF QueryMayFail(ListClassesFind(caller, filter, pageSize, token)) /\ ~engineOK THEN Internal
    ELSE OK

\* the response of a successful ListClasses, with the filter of the request
\* and the query the driver sent for it
ListClassesResponse(caller, filter, pageSize, token) ==
    LET find == ListClassesFind(caller, filter, pageSize, token)
        limit == PageLimit(pageSize, token)
        shown == FilterViewable(caller, ListClassesRows(find))
        more == Len(shown) = limit + 1
    IN  [classes |-> IF more THEN SubSeq(shown, 1, limit) ELSE shown,
         next |-> IF more THEN PageToken(limit, PageOffset(token) + limit) ELSE NoPageToken,
         query |-> ListClassesQuery(find),
         args |-> ListClassesArgs(find),
         filter |-> filter]

NoResponse == [classes |-> <<>>, next |-> NoPageToken, query |-> <<>>, args |-> <<>>, filter |-> <<>>]

ListClasses(caller, filter, pageSize, token, engineOK) ==
    LET code == ListClassesCode(caller, filter, pageSize, token, engineOK)
    IN  /\ last' = [op |-> "ListClasses", caller |-> caller, target |-> NoID, code |-> code,
                     out |-> IF code = OK THEN ListClassesResponse(caller, filter, pageSize, token) ELSE NoResponse,
                     pageSize |-> pageSize, token |-> token, filter |-> filter]
        /\ UNCHANGED <<driver, storeVars, inflight>>


(* ----------------------------- UpdateClass ----------------------------- *)

\* a store.UpdateClass with no field set
NoUpdate == [err |-> FALSE, name |-> Nil, description |-> Nil, visibility |-> Nil, inviteCode |-> Nil, settings |-> NoStoreSettings]

\* the loop over the paths of the update mask: the update built so far, err
\* set by the first path that is rejected
RECURSIVE ApplyPaths(_, _, _)
ApplyPaths(paths, req, upd) ==
    IF paths = <<>> \/ upd.err THEN upd
    ELSE LET path == paths[1]
             next ==
                 CASE path = "name" ->
                        [upd EXCEPT !.name = IF req.displayName = "" THEN ClassNamePrefix \o req.uid ELSE req.displayName]
                   [] path = "display_name" ->
                        IF req.displayName = "" THEN [upd EXCEPT !.err = TRUE] ELSE [upd EXCEPT !.name = req.displayName]
                   [] path = "description" -> [upd EXCEPT !.description = req.description]
                   [] path = "settings" -> [upd EXCEPT !.settings = convertSettingsToStore(req.settings)]
                   [] path = "visibility" ->
                        IF convertClassVisibilityToStore(req.visibility) = Nil THEN [upd EXCEPT !.err = TRUE]
                        ELSE [upd EXCEPT !.visibility = convertClassVisibilityToStore(req.visibility)]
                   [] path = "invite_code" -> [upd EXCEPT !.inviteCode = IF req.invite = Nil THEN "" ELSE req.invite]
                   [] OTHER -> upd
         IN  ApplyPaths(Tail(paths), req, next)

\* an UPDATE that also writes the description column when the update leaves it out
UpdatedRowDescriptionCleared(row, upd) ==
    [row EXCEPT !.name = IF upd.name # Nil THEN upd.name ELSE @,
                !.description = IF upd.description # Nil THEN upd.description ELSE "",
                !.visibility = IF upd.visibility # Nil THEN upd.visibility ELSE @,
                !.inviteCode = IF upd.inviteCode # Nil THEN upd.inviteCode ELSE @,
                !.settings = IF ~upd.settings.nil THEN ScanSettings(SettingsColumn(upd.settings)) ELSE @]

\* driver UpdateClass: the row after the UPDATE
UpdatedRow(row, upd) ==
    [row EXCEPT !.name = IF upd.name # Nil THEN upd.name ELSE @,
                !.description = IF upd.description # Nil THEN upd.description ELSE @,
                !.visibility = IF upd.visibility # Nil THEN upd.visibility ELSE @,
                !.inviteCode = IF upd.inviteCode # Nil THEN upd.inviteCode ELSE @,
                !.settings = IF ~upd.settings.nil THEN ScanSettings(SettingsColumn(upd.settings)) ELSE @]

\* driver UpdateClass: TRUE when it returns an error (nothing to set, or UNIQUE(invite_code) violated)
UpdateClassFails(row, upd) ==
    \/ upd.name = Nil /\ upd.description = Nil /\ upd.visibility = Nil /\ upd.inviteCode = Nil /\ upd.settings.nil
    \/ upd.inviteCode # Nil /\ \E c \in classes : c.id # row.id /\ c.inviteCode = upd.inviteCode

UpdateClassRequest(name, displayName, description, pbVisibility, invite, settings) ==
    [uid |-> ExtractClassUIDFromName(name), displayName |-> displayName, description |-> description, visibility |-> pbVisibility,
     invite |-> invite, settings |-> settings]

UpdateClassCode(caller, name, mask, req) ==
    LET class == GetClassByUID(req.uid)
    IN  IF req.uid = Nil THEN InvalidArgument
        ELSE IF mask = <<>> THEN InvalidArgument
        ELSE IF class.id = NoID THEN NotFound
        ELSE IF caller = NoUser THEN Unauthenticated
        ELSE IF ~canManageClass(caller, class) THEN PermissionDenied
        ELSE IF ApplyPaths(mask, req, NoUpdate).err THEN InvalidArgument
        ELSE IF UpdateClassFails(class, ApplyPaths(mask, req, NoUpdate)) THEN Internal
        ELSE OK

UpdateClass(caller, name, mask, displayName, description, pbVisibility, invite, settings) ==
    LET req == UpdateClassRequest(name, displayName, description, pbVisibility, invite, settings)
        code == UpdateClassCode(caller, name, mask, req)
        class == ResolveClass(name)
        row == UpdatedRow(class, ApplyPaths(mask, req, NoUpdate))
    IN  /\ IF code = OK
           THEN /\ classes' = (classes \ {class}) \cup {row}
                /\ last' = [op |-> "UpdateClass", caller |-> caller, target |-> class.id, code |-> OK, out |-> row, paths |-> mask]
           ELSE /\ UNCHANGED classes
                /\ last' = [op |-> "UpdateClass", caller |-> caller, target |-> class.id, code |-> code, out |-> NoClass, paths |-> mask]
        /\ UNCHANGED <<driver, visibilities, nextVisibilityID, nextClassID, members, nextMemberID, templates, nextTemplateID, inflight>>

(* ----------------------------- DeleteClass ----------------------------- *)

\* the slot a handler that has passed its checks waits in: the lowest free one
FreeSlot(s) == inflight[s] = Idle /\ \A t \in 1..(s - 1) : inflight[t] # Idle

\* DeleteClass up to and including the member check
DeleteClassCode(caller, name) ==
    LET uid == ExtractClassUIDFromName(name)
        class == GetClassByUID(uid)
    IN  IF uid = Nil THEN InvalidArgument
        ELSE IF class.id = NoID THEN NotFound
        ELSE IF caller = NoUser THEN Unauthenticated
        ELSE IF ~canManageClass(caller, class) THEN PermissionDenied
        ELSE IF hasClassMembers(class.id) THEN FailedPrecondition
        ELSE OK

\* DeleteClass, first part: the checks; a request that passes them goes on to the DELETE
DeleteClassCheck(caller, name, s) ==
    LET code == DeleteClassCode(caller, name)
        class == ResolveClass(name)
    IN  /\ FreeSlot(s)
        /\ IF code = OK
           THEN /\ inflight' = [inflight EXCEPT ![s] = [op |-> "DeleteClass", caller |-> caller, classID |-> class.id]]
                /\ UNCHANGED last
           ELSE /\ UNCHANGED inflight
                /\ last' = Result("DeleteClass", caller, class.id, code, NoClass)
        /\ UNCHANGED <<driver, storeVars>>

\* Store.DeleteClass and the response: the DELETE takes the rows that reference
\* the class with it (ON DELETE CASCADE); no row affected is an error
DeleteClassStore(req) ==
    LET class == GetClassByID(req.classID)
    IN  /\ IF class.id = NoID
           THEN /\ UNCHANGED <<classes, members, templates, visibilities>>
                /\ last' = Result("DeleteClass", req.caller, req.classID, Internal, NoClass)
           ELSE /\ classes' = classes \ {class}
                /\ members' = {m \in members : m.classID # class.id}
                /\ templates' = {t \in templates : t.classID # class.id}
                /\ visibilities' = {v \in visibilities : v.classID # class.id}
                /\ last' = Result("DeleteClass", req.caller, req.classID, OK, class)
        /\ UNCHANGED <<driver, nextVisibilityID, nextClassID, nextMemberID, nextTemplateID>>

\* DeleteClass, second part: the DELETE
DeleteClassWrite(s) ==
    /\ inflight[s].op = "DeleteClass"
    /\ inflight' = [inflight EXCEPT ![s] = Idle]
    /\ DeleteClassStore(inflight[s])

\* DeleteClass, run from its first statement to its return with no other
\* handler in between
DeleteClass(caller, name) ==
    LET code == DeleteClassCode(caller, name)
        class == ResolveClass(name)
    IN  /\ UNCHANGED inflight
        /\ IF code = OK
           THEN DeleteClassStore([op |-> "DeleteClass", caller |-> caller, classID |-> class.id])
           ELSE /\ last' = Result("DeleteClass", caller, class.id, code, NoClass)
                /\ UNCHANGED <<driver, storeVars>>


(* ---------------------------- AddClassMember --------------------------- *)

\* users a member request can name; 0 stands for a malformed user name
UserInputs == {NoUser, 1, 2, 3}

\* inserts that handlers past their checks are about to make
PendingAdds == Cardinality({s \in 1..MaxInflight : inflight[s].op = "AddClassMember"})

\* AddClassMember up to and including the role conversion
AddClassMemberCode(caller, name, userID, pbRole) ==
    LET uid == ExtractClassUIDFromName(name)
        class == GetClassByUID(uid)
        im == isClassMember(userID, class.id)
    IN  IF uid = Nil THEN InvalidArgument
        ELSE IF userID = NoUser THEN InvalidArgument
        ELSE IF caller = NoUser THEN Unauthenticated
        ELSE IF class.id = NoID THEN NotFound
        ELSE IF ~canManageClass(caller, class) THEN PermissionDenied
        ELSE IF im.err THEN Internal
        ELSE IF im.member THEN AlreadyExists
        ELSE IF convertClassMemberRoleToStore(pbRole) = Nil THEN InvalidArgument
        ELSE OK

\* AddClassMember, first part: the checks; a request that passes them goes on to the INSERT
AddClassMemberCheck(caller, name, userID, pbRole, s) ==
    LET code == AddClassMemberCode(caller, name, userID, pbRole)
        class == ResolveClass(name)
    IN  /\ FreeSlot(s)
        /\ IF code = OK
           THEN /\ nextMemberID + PendingAdds <= MaxMembers
                /\ inflight' = [inflight EXCEPT ![s] = [op |-> "AddClassMember", caller |-> caller, classID |-> class.id, userID |-> userID, role |-> convertClassMemberRoleToStore(pbRole)]]
                /\ UNCHANGED last
           ELSE /\ UNCHANGED inflight
                /\ last' = Result("AddClassMember", caller, class.id, code, [id |-> NoID, userID |-> userID])
        /\ UNCHANGED <<driver, storeVars>>

\* CreateClassMember on a table without UNIQUE(class_id, user_id)
CreateClassMemberCodeNoUnique(classID, userID) ==
    IF NotImplemented(driver) THEN Internal
    ELSE IF GetClassByID(classID).id = NoID THEN Internal
    ELSE OK

\* driver CreateClassMember: the outcome of the INSERT under UNIQUE(class_id, user_id)
\* and the foreign key to class
CreateClassMemberCode(classID, userID) ==
    IF NotImplemented(driver) THEN Internal
    ELSE IF \E m \in members : m.classID = classID /\ m.userID = userID
         THEN (IF IsDuplicateErr(UniqueViolationText(driver)) THEN AlreadyExists ELSE Internal)
    ELSE IF GetClassByID(classID).id = NoID THEN Internal
    ELSE OK

\* Store.CreateClassMember and the response
AddClassMemberStore(req) ==
    LET code == CreateClassMemberCode(req.classID, req.userID)
        row == [id |-> nextMemberID, classID |-> req.classID, userID |-> req.userID, role |-> req.role]
    IN  /\ IF code = OK
           THEN /\ members' = members \cup {row}
                /\ nextMemberID' = nextMemberID + 1
                /\ last' = Result("AddClassMember", req.caller, req.classID, OK, row)
           ELSE /\ UNCHANGED <<members, nextMemberID>>
                /\ last' = Result("AddClassMember", req.caller, req.classID, code, [id |-> NoID, userID |-> req.userID])
        /\ UNCHANGED <<driver, visibilities, nextVisibilityID, classes, nextClassID, templates, nextTemplateID>>

\* AddClassMember, second part: the INSERT
AddClassMemberWrite(s) ==
    /\ inflight[s].op = "AddClassMember"
    /\ inflight' = [inflight EXCEPT ![s] = Idle]
    /\ AddClassMemberStore(inflight[s])

\* AddClassMember, run from its first statement to its return with no other
\* handler in between
AddClassMember(caller, name, userID, pbRole) ==
    LET code == AddClassMemberCode(caller, name, userID, pbRole)
        class == ResolveClass(name)
    IN  /\ UNCHANGED inflight
        /\ IF code = OK
           THEN /\ nextMemberID <= MaxMembers
                /\ AddClassMemberStore([op |-> "AddClassMember", caller |-> caller, classID |-> class.id, userID |-> userID,
                                        role |-> convertClassMemberRoleToStore(pbRole)])
           ELSE /\ last' = Result("AddClassMember", caller, class.id, code, [id |-> NoID, userID |-> userID])
                /\ UNCHANGED <<driver, storeVars>>

(* --------------------------- RemoveClassMember ------------------------- *)

\* RemoveClassMember without its permission check
RemoveClassMemberCodeUnchecked(caller, name) ==
    LET memberID == ExtractClassMemberIDFromName(name)
        classMember == GetClassMember(memberID)
        class == GetClassByID(classMember.classID)
    IN  IF memberID = NoID THEN InvalidArgument
        ELSE IF caller = NoUser THEN Unauthenticated
        ELSE IF NotImplemented(driver) THEN Internal
        ELSE IF classMember.id = NoID THEN NotFound
        ELSE IF class.id = NoID THEN NotFound
        ELSE IF class.creator = classMember.userID THEN FailedPrecondition
        ELSE OK

RemoveClassMemberCode(caller, name) ==
    LET memberID == ExtractClassMemberIDFromName(name)
        classMember == GetClassMember(memberID)
        class == GetClassByID(classMember.classID)
    IN  IF memberID = NoID THEN InvalidArgument
        ELSE IF caller = NoUser THEN Unauthenticated
        ELSE IF NotImplemented(driver) THEN Internal
        ELSE IF classMember.id = NoID THEN NotFound
        ELSE IF class.id = NoID THEN NotFound
        ELSE IF ~canManageClass(caller, class) /\ caller # classMember.userID THEN PermissionDenied
        ELSE IF class.creator = classMember.userID THEN FailedPrecondition
        ELSE OK

\* RemoveClassMember whose DELETE statement removes no row
RemoveClassMemberRowKept(caller, name) ==
    LET code == RemoveClassMemberCode(caller, name)
        classMember == GetClassMember(ExtractClassMemberIDFromName(name))
    IN  /\ IF code = OK
           THEN last' = Result("RemoveClassMember", caller, classMember.id, OK, classMember)
           ELSE last' = Result("RemoveClassMember", caller, classMember.id, code, NoMember)
        /\ UNCHANGED <<driver, visibilities, nextVisibilityID, classes, nextClassID, members, nextMemberID, templates, nextTemplateID, inflight>>

RemoveClassMember(caller, name) ==
    LET code == RemoveClassMemberCode(caller, name)
        classMember == GetClassMember(ExtractClassMemberIDFromName(name))
    IN  /\ IF code = OK
           THEN /\ members' = members \ {classMember}
                /\ last' = Result("RemoveClassMember", caller, classMember.id, OK, classMember)
           ELSE /\ UNCHANGED members
                /\ last' = Result("RemoveClassMember", caller, classMember.id, code, NoMember)
        /\ UNCHANGED <<driver, visibilities, nextVisibilityID, classes, nextClassID, nextMemberID, templates, nextTemplateID, inflight>>

(* ------------------------- UpdateClassMemberRole ----------------------- *)

\* convertClassMemberFromStore: the ClassMember message of a member row
convertClassMemberFromStore(member) ==
    LET class == GetClassByID(member.classID)
    IN  [name |-> MemberName(class.uid, member.id),
         class |-> ClassName(class.uid),
         user |-> <<UserNamePrefix, Digits[member.userID]>>,
         role |-> convertClassMemberRoleFromStore(member.role)]

UpdateClassMemberRoleCode(caller, name, pbRole) ==
    LET memberID == ExtractClassMemberIDFromName(name)
        classMember == GetClassMember(memberID)
        class == GetClassByID(classMember.classID)
    IN  IF memberID = NoID THEN InvalidArgument
        ELSE IF caller = NoUser THEN Unauthenticated
        ELSE IF NotImplemented(driver) THEN Internal
        ELSE IF classMember.id = NoID THEN NotFound
        ELSE IF class.id = NoID THEN NotFound
        ELSE IF ~canManageClass(caller, class) THEN PermissionDenied
        ELSE IF class.creator = classMember.userID THEN FailedPrecondition
        ELSE IF convertClassMemberRoleToStore(pbRole) = Nil THEN InvalidArgument
        ELSE OK

\* UpdateClassMemberRole whose UPDATE statement writes nothing
UpdateClassMemberRoleNotWritten(caller, name, pbRole) ==
    LET code == UpdateClassMemberRoleCode(caller, name, pbRole)
        classMember == GetClassMember(ExtractClassMemberIDFromName(name))
    IN  /\ IF code = OK
           THEN last' = Result("UpdateClassMemberRole", caller, classMember.id, OK, classMember)
           ELSE last' = Result("UpdateClassMemberRole", caller, classMember.id, code, NoMember)
        /\ UNCHANGED <<driver, visibilities, nextVisibilityID, classes, nextClassID, members, nextMemberID, templates, nextTemplateID, inflight>>

UpdateClassMemberRole(caller, name, pbRole) ==
    LET code == UpdateClassMemberRoleCode(caller, name, pbRole)
        classMember == GetClassMember(ExtractClassMemberIDFromName(name))
        row == [classMember EXCEPT !.role = convertClassMemberRoleToStore(pbRole)]
    IN  /\ IF code = OK
           THEN /\ members' = (members \ {classMember}) \cup {row}
                /\ last' = Result("UpdateClassMemberRole", caller, classMember.id, OK, row)
           ELSE /\ UNCHANGED members
                /\ last' = Result("UpdateClassMemberRole", caller, classMember.id, code, NoMember)
        /\ UNCHANGED <<driver, visibilities, nextVisibilityID, classes, nextClassID, nextMemberID, templates, nextTemplateID, inflight>>

(* --------------------------- ListClassMembers -------------------------- *)

ListClassMembersCode(caller, name, token) ==
    LET uid == ExtractClassUIDFromName(name)
        class == GetClassByUID(uid)
        cv == canViewClass(caller, class)
    IN  IF uid = Nil THEN InvalidArgument
        ELSE IF caller = NoUser THEN Unauthenticated
        ELSE IF class.id = NoID THEN NotFound
        ELSE IF cv.err THEN Internal
        ELSE IF ~cv.view THEN PermissionDenied
        ELSE IF ~token.ok THEN InvalidArgument
        ELSE IF NotImplemented(driver) THEN Internal
        ELSE OK

\* ListClassMembers with a next_page_token that starts one row too far
ListClassMembersResponseSkipping(name, pageSize, token) ==
    LET class == GetClassByUID(ExtractClassUIDFromName(name))
        limit == PageLimit(pageSize, token)
        rows == Page(ListClassMembers(class.id, NoID), limit + 1, PageOffset(token))
        more == Len(rows) = limit + 1
    IN  [members |-> IF more THEN SubSeq(rows, 1, limit) ELSE rows,
         next |-> IF more THEN PageToken(limit, PageOffset(token) + limit + 1) ELSE NoPageToken]

\* the page of members a successful ListClassMembers returns, with its next_page_token
ListClassMembersResponse(name, pageSize, token) ==
    LET class == GetClassByUID(ExtractClassUIDFromName(name))
        limit == PageLimit(pageSize, token)
        rows == Page(ListClassMembers(class.id, NoID), limit + 1, PageOffset(token))
        more == Len(rows) = limit + 1
    IN  [members |-> IF more THEN SubSeq(rows, 1, limit) ELSE rows,
         next |-> IF more THEN PageToken(limit, PageOffset(token) + limit) ELSE NoPageToken]

ListClassMembersCall(caller, name, pageSize, token) ==
    LET code == ListClassMembersCode(caller, name, token)
    IN  /\ last' = [op |-> "ListClassMembers", caller |-> caller, target |-> ResolveClass(name).id, code |-> code,
                     out |-> IF code = OK THEN ListClassMembersResponse(name, pageSize, token)
                             ELSE [members |-> <<>>, next |-> NoPageToken],
                     pageSize |-> pageSize, token |-> token]
        /\ UNCHANGED <<driver, storeVars, inflight>>

(* ------------------------- CreateClassTagTemplate ---------------------- *)

\* colors a request can carry; Nil is an unset color
ColorInputs == {Nil}

\* the column default of class_tag_template.color
DefaultColor == "#808080"

TemplateMaskInputs == {<<>>, <<"display_name">>, <<"color">>}

\* driver CreateClassTagTemplate: the outcome of the INSERT under UNIQUE(class_id, name)
CreateClassTagTemplateFails(classID, name) ==
    \/ NotImplemented(driver)
    \/ \E t \in templates : t.classID = classID /\ t.name = name

CreateClassTagTemplateCode(caller, className, displayName) ==
    LET uid == ExtractClassUIDFromName(className)
        class == GetClassByUID(uid)
    IN  IF uid = Nil THEN InvalidArgument
        ELSE IF displayName = "" THEN InvalidArgument
        ELSE IF caller = NoUser THEN Unauthenticated
        ELSE IF class.id = NoID THEN NotFound
        ELSE IF ~canManageClass(caller, class) THEN PermissionDenied
        ELSE IF NotImplemented(driver) THEN Internal
        ELSE IF GetClassTagTemplateByName(class.id, displayName).id # NoID THEN AlreadyExists
        ELSE IF CreateClassTagTemplateFails(class.id, displayName)
             THEN (IF IsDuplicateErr(UniqueViolationText(driver)) THEN AlreadyExists ELSE Internal)
        ELSE OK

CreateClassTagTemplate(caller, className, displayName, color, description) ==
    LET code == CreateClassTagTemplateCode(caller, className, displayName)
        class == ResolveClass(className)
        \* the color column is left to its default when the request has none;
        \* the description is not written
        row == [id |-> nextTemplateID, classID |-> class.id, name |-> displayName,
                color |-> IF color = Nil THEN DefaultColor ELSE color, description |-> ""]
    IN  /\ nextTemplateID <= MaxTemplates
        /\ IF code = OK
           THEN /\ templates' = templates \cup {row}
                /\ nextTemplateID' = nextTemplateID + 1
                /\ last' = Result("CreateClassTagTemplate", caller, class.id, OK, row)
           ELSE /\ UNCHANGED <<templates, nextTemplateID>>
                /\ last' = Result("CreateClassTagTemplate", caller, class.id, code, NoTemplate)
        /\ UNCHANGED <<driver, visibilities, nextVisibilityID, classes, nextClassID, members, nextMemberID, inflight>>

(* ------------------------- UpdateClassTagTemplate ---------------------- *)

NoTemplateUpdate == [code |-> OK, name |-> Nil, color |-> Nil]

\* the loop over update_mask.paths: the store update it prepares, or the
\* code it returns with
RECURSIVE ApplyTemplatePaths(_, _, _, _, _)
ApplyTemplatePaths(paths, tagTemplate, displayName, color, upd) ==
    IF paths = <<>> \/ upd.code # OK THEN upd
    ELSE LET path == Head(paths)
             existing == GetClassTagTemplateByName(tagTemplate.classID, displayName)
             next == CASE path = "display_name" ->
                              IF displayName = "" THEN [upd EXCEPT !.code = InvalidArgument]
                              ELSE IF displayName # tagTemplate.name /\ existing.id # NoID /\ existing.id # tagTemplate.id
                                   THEN [upd EXCEPT !.code = AlreadyExists]
                              ELSE [upd EXCEPT !.name = displayName]
                       [] path = "color" -> [upd EXCEPT !.color = IF color = Nil THEN "" ELSE color]
                       [] OTHER -> upd
         IN  ApplyTemplatePaths(Tail(paths), tagTemplate, displayName, color, next)

\* driver UpdateClassTagTemplate: fails with nothing to set, or on UNIQUE(class_id, name)
UpdateClassTagTemplateFails(tagTemplate, upd) ==
    \/ upd.name = Nil /\ upd.color = Nil
    \/ upd.name # Nil /\ \E t \in templates : t.id # tagTemplate.id /\ t.classID = tagTemplate.classID /\ t.name = upd.name

UpdateClassTagTemplateCode(caller, name, mask, displayName, color) ==
    LET templateID == ExtractClassTagTemplateIDFromName(name)
        tagTemplate == GetClassTagTemplate(templateID)
        class == GetClassByID(tagTemplate.classID)
        upd == ApplyTemplatePaths(mask, tagTemplate, displayName, color, NoTemplateUpdate)
    IN  IF templateID = NoID THEN InvalidArgument
        ELSE IF mask = <<>> THEN InvalidArgument
        ELSE IF caller = NoUser THEN Unauthenticated
        ELSE IF NotImplemented(driver) THEN Internal
        ELSE IF tagTemplate.id = NoID THEN NotFound
        ELSE IF class.id = NoID THEN NotFound
        ELSE IF ~canManageClass(caller, class) THEN PermissionDenied
        ELSE IF upd.code # OK THEN upd.code
        ELSE IF UpdateClassTagTemplateFails(tagTemplate, upd) THEN Internal
        ELSE OK

UpdateClassTagTemplate(caller, name, mask, displayName, color, description) ==
    LET code == UpdateClassTagTemplateCode(caller, name, mask, displayName, color)
        tagTemplate == GetClassTagTemplate(ExtractClassTagTemplateIDFromName(name))
        upd == ApplyTemplatePaths(mask, tagTemplate, displayName, color, NoTemplateUpdate)
        row == [tagTemplate EXCEPT !.name = IF upd.name # Nil THEN upd.name ELSE @,
                                   !.color = IF upd.color # Nil THEN upd.color ELSE @]
    IN  /\ IF code = OK
           THEN /\ templates' = (templates \ {tagTemplate}) \cup {row}
                /\ last' = Result("UpdateClassTagTemplate", caller, tagTemplate.id, OK, row)
           ELSE /\ UNCHANGED templates
                /\ last' = Result("UpdateClassTagTemplate", caller, tagTemplate.id, code, NoTemplate)
        /\ UNCHANGED <<driver, visibilities, nextVisibilityID, classes, nextClassID, members, nextMemberID, nextTemplateID, inflight>>

(* ------------------ tag template requests in parallel ------------------ *)

\* CreateClassTagTemplate, first part: the checks and the lookup of the name;
\* a request that passes goes on to the INSERT
CreateClassTagTemplateCheck(caller, className, displayName, s) ==
    LET code == CreateClassTagTemplateCode(caller, className, displayName)
        class == ResolveClass(className)
    IN  /\ FreeSlot(s)
        /\ IF code = OK
           THEN /\ inflight' = [inflight EXCEPT ![s] = [op |-> "CreateClassTagTemplate", caller |-> caller, classID |-> class.id,
                                                        name |-> displayName]]
                /\ UNCHANGED last
           ELSE /\ UNCHANGED inflight
                /\ last' = [op |-> "CreateClassTagTemplate", caller |-> caller, target |-> class.id, code |-> code,
                             out |-> NoTemplate, class |-> class.id, name |-> displayName, paths |-> <<>>, description |-> ""]
        /\ UNCHANGED <<driver, storeVars>>

\* CreateClassTagTemplate, second part: the INSERT under UNIQUE (class_id,
\* name) and the response
CreateClassTagTemplateWrite(s) ==
    LET req == inflight[s]
        taken == CreateClassTagTemplateFails(req.classID, req.name)
        row == [id |-> nextTemplateID, classID |-> req.classID, name |-> req.name, color |-> DefaultColor, description |-> ""]
        reply(code, out) == [op |-> "CreateClassTagTemplate", caller |-> req.caller, target |-> req.classID, code |-> code,
                             out |-> out, class |-> req.classID, name |-> req.name, paths |-> <<>>, description |-> ""]
    IN  /\ req.op = "CreateClassTagTemplate"
        /\ taken \/ nextTemplateID <= MaxRaceTemplates
        /\ inflight' = [inflight EXCEPT ![s] = Idle]
        /\ IF taken
           THEN /\ last' = reply(IF IsDuplicateErr(UniqueViolationText(driver)) THEN AlreadyExists ELSE Internal, NoTemplate)
                /\ UNCHANGED <<templates, nextTemplateID>>
           ELSE /\ templates' = templates \cup {row}
                /\ nextTemplateID' = nextTemplateID + 1
                /\ last' = reply(OK, row)
        /\ UNCHANGED <<driver, classes, nextClassID, members, nextMemberID, visibilities, nextVisibilityID>>

\* UpdateClassTagTemplate, first part: the checks and the loop over the mask
\* with its lookup of the new name; a request that passes goes on to the UPDATE
UpdateClassTagTemplateCheck(caller, name, mask, displayName, description, s) ==
    LET tagTemplate == GetClassTagTemplate(ExtractClassTagTemplateIDFromName(name))
        upd == ApplyTemplatePaths(mask, tagTemplate, displayName, Nil, NoTemplateUpdate)
        code == UpdateClassTagTemplateCode(caller, name, mask, displayName, Nil)
    IN  /\ FreeSlot(s)
        /\ IF code = OK
           THEN /\ inflight' = [inflight EXCEPT ![s] = [op |-> "UpdateClassTagTemplate", caller |-> caller, id |-> tagTemplate.id,
                                                        classID |-> tagTemplate.classID, upd |-> upd, paths |-> mask]]
                /\ UNCHANGED last
           ELSE /\ UNCHANGED inflight
                /\ last' = [op |-> "UpdateClassTagTemplate", caller |-> caller, target |-> tagTemplate.id, code |-> code,
                             out |-> NoTemplate, class |-> IF tagTemplate.id = NoID THEN NoID ELSE tagTemplate.classID,
                             name |-> IF "display_name" \in {mask[i] : i \in 1..Len(mask)} THEN displayName ELSE Nil,
                             paths |-> mask, description |-> description]
        /\ UNCHANGED <<driver, storeVars>>

\* UpdateClassTagTemplate, second part: the UPDATE under UNIQUE (class_id,
\* name), the read of the row, and the response
UpdateClassTagTemplateWrite(s) ==
    LET req == inflight[s]
        tagTemplate == GetClassTagTemplate(req.id)
        row == [tagTemplate EXCEPT !.name = IF req.upd.name # Nil THEN req.upd.name ELSE @,
                                   !.color = IF req.upd.color # Nil THEN req.upd.color ELSE @]
        reply(code, out) == [op |-> "UpdateClassTagTemplate", caller |-> req.caller, target |-> req.id, code |-> code,
                             out |-> out, class |-> req.classID, name |-> req.upd.name, paths |-> req.paths, description |-> ""]
    IN  /\ req.op = "UpdateClassTagTemplate"
        /\ inflight' = [inflight EXCEPT ![s] = Idle]
        /\ IF tagTemplate.id = NoID
           THEN /\ last' = reply(NotFound, NoTemplate)
                /\ UNCHANGED templates
           ELSE IF UpdateClassTagTemplateFails(tagTemplate, req.upd)
           THEN /\ last' = reply(Internal, NoTemplate)
                /\ UNCHANGED templates
           ELSE /\ templates' = (templates \ {tagTemplate}) \cup {row}
                /\ last' = reply(OK, row)
        /\ UNCHANGED <<driver, classes, nextClassID, members, nextMemberID, nextTemplateID, visibilities, nextVisibilityID>>

(* ------------------------- DeleteClassTagTemplate ---------------------- *)

DeleteClassTagTemplateCode(caller, name) ==
    LET templateID == ExtractClassTagTemplateIDFromName(name)
        tagTemplate == GetClassTagTemplate(templateID)
        class == GetClassByID(tagTemplate.classID)
    IN  IF templateID = NoID THEN InvalidArgument
        ELSE IF caller = NoUser THEN Unauthenticated
        ELSE IF NotImplemented(driver) THEN Internal
        ELSE IF tagTemplate.id = NoID THEN NotFound
        ELSE IF class.id = NoID THEN NotFound
        ELSE IF ~canManageClass(caller, class) THEN PermissionDenied
        ELSE OK

DeleteClassTagTemplate(caller, name) ==
    LET code == DeleteClassTagTemplateCode(caller, name)
        tagTemplate == GetClassTagTemplate(ExtractClassTagTemplateIDFromName(name))
    IN  /\ IF code = OK
           THEN /\ templates' = templates \ {tagTemplate}
                /\ last' = Result("DeleteClassTagTemplate", caller, tagTemplate.id, OK, tagTemplate)
           ELSE /\ UNCHANGED templates
                /\ last' = Result("DeleteClassTagTemplate", caller, tagTemplate.id, code, NoTemplate)
        /\ UNCHANGED <<driver, visibilities, nextVisibilityID, classes, nextClassID, members, nextMemberID, nextTemplateID, inflight>>

(* ------------------------ SetClassMemoVisibility ----------------------- *)

\* a nil *store.Memo, and a nil *store.ClassMemoVisibility
NoMemo == [id |-> NoID]

\* Store.GetMemo by the memo name of a request: memo m1 was written by user
\* 3, memo m2 by user 2; err is TRUE for a name that is no memo name
GetMemo(name) ==
    IF Len(name) # 2 \/ name[1] # "memos/" THEN [err |-> TRUE, memo |-> NoMemo]
    ELSE IF name[2] = "m1" THEN [err |-> FALSE, memo |-> [id |-> 1, creator |-> 3]]
    ELSE IF name[2] = "m2" THEN [err |-> FALSE, memo |-> [id |-> 2, creator |-> 2]]
    ELSE [err |-> FALSE, memo |-> NoMemo]

\* SetClassMemoVisibility with the permission block left out
SetClassMemoVisibilityCodeUnguarded(caller, className, memoName, pbVisibility) ==
    LET uid == ExtractClassUIDFromName(className)
        class == GetClassByUID(uid)
        found == GetMemo(memoName)
    IN  IF uid = Nil THEN InvalidArgument
        ELSE IF found.err THEN InvalidArgument
        ELSE IF caller = NoUser THEN Unauthenticated
        ELSE IF class.id = NoID THEN NotFound
        ELSE IF found.memo.id = NoID THEN NotFound
        ELSE IF convertClassVisibilityToStore(pbVisibility) = Nil THEN InvalidArgument
        ELSE IF NotImplemented(driver) THEN Internal
        ELSE OK

\* SetClassMemoVisibility up to and including the lookup of the existing record
SetClassMemoVisibilityCode(caller, className, memoName, pbVisibility) ==
    LET uid == ExtractClassUIDFromName(className)
        class == GetClassByUID(uid)
        found == GetMemo(memoName)
    IN  IF uid = Nil THEN InvalidArgument
        ELSE IF found.err THEN InvalidArgument
        ELSE IF caller = NoUser THEN Unauthenticated
        ELSE IF class.id = NoID THEN NotFound
        ELSE IF found.memo.id = NoID THEN NotFound
        ELSE IF ~canManageClass(caller, class) /\ found.memo.creator # caller THEN PermissionDenied
        ELSE IF ~canManageClass(caller, class) /\ isClassMember(caller, class.id).err THEN Internal
        ELSE IF ~canManageClass(caller, class) /\ ~isClassMember(caller, class.id).member THEN PermissionDenied
        ELSE IF convertClassVisibilityToStore(pbVisibility) = Nil THEN InvalidArgument
        ELSE IF NotImplemented(driver) THEN Internal
        ELSE OK

\* SetClassMemoVisibility, first part: the checks and the lookup of the
\* record of the pair; a request that passes goes on to its UPDATE or INSERT.
\* engineOK is FALSE when the engine refuses the lookup
SetClassMemoVisibilityCheck(caller, className, memoName, pbVisibility, engineOK, s) ==
    LET code == SetClassMemoVisibilityCode(caller, className, memoName, pbVisibility)
        class == ResolveClass(className)
        memo == GetMemo(memoName).memo
        existing == {v \in visibilities : v.classID = class.id /\ v.memoID = memo.id}
    IN  /\ FreeSlot(s)
        /\ IF code = OK /\ engineOK
           THEN /\ inflight' = [inflight EXCEPT ![s] = [op |-> "SetClassMemoVisibility", caller |-> caller, classID |-> class.id,
                                                        memoID |-> memo.id, visibility |-> convertClassVisibilityToStore(pbVisibility),
                                                        existing |-> {v.id : v \in existing}]]
                /\ UNCHANGED last
           ELSE /\ UNCHANGED inflight
                /\ last' = [op |-> "SetClassMemoVisibility", caller |-> caller, target |-> class.id,
                             code |-> IF code = OK THEN Internal ELSE code, out |-> NoMemo,
                             memo |-> GetMemo(memoName).memo, had |-> {}, visibility |-> convertClassVisibilityToStore(pbVisibility)]
        /\ UNCHANGED <<driver, storeVars>>

\* the INSERT with the UNIQUE constraint of the table left out
CreateClassMemoVisibilityUnconstrained(classID, memoID) == FALSE

\* driver CreateClassMemoVisibility: TRUE when the INSERT hits UNIQUE (class_id, memo_id)
CreateClassMemoVisibilityFails(classID, memoID) == \E v \in visibilities : v.classID = classID /\ v.memoID = memoID

\* SetClassMemoVisibility, second part: UPDATE by id and read back when the
\* lookup found a record, INSERT of class_id, memo_id and visibility (the
\* columns the drivers write) otherwise, under UNIQUE (class_id, memo_id)
\* and the foreign key to class; then the response. engineOK is FALSE when
\* the engine refuses the statement for another reason
SetClassMemoVisibilityWrite(s, engineOK) ==
    LET req == inflight[s]
        row == {v \in visibilities : v.id \in req.existing}
        taken == CreateClassMemoVisibilityFails(req.classID, req.memoID)
        orphan == \A c \in classes : c.id # req.classID
        created == [id |-> nextVisibilityID, classID |-> req.classID, memoID |-> req.memoID, visibility |-> req.visibility]
        reply(code, out) == [op |-> "SetClassMemoVisibility", caller |-> req.caller, target |-> req.classID, code |-> code, out |-> out,
                             memo |-> GetMemo(<<"memos/", IF req.memoID = 1 THEN "m1" ELSE "m2">>).memo, had |-> req.existing,
                             visibility |-> req.visibility]
    IN  /\ req.op = "SetClassMemoVisibility"
        /\ inflight' = [inflight EXCEPT ![s] = Idle]
        /\ IF ~engineOK
           THEN /\ last' = reply(Internal, NoMemo)
                /\ UNCHANGED <<visibilities, nextVisibilityID>>
           ELSE IF req.existing # {}
           THEN /\ visibilities' = {IF v \in row THEN [v EXCEPT !.visibility = req.visibility] ELSE v : v \in visibilities}
                /\ last' = IF row = {} THEN reply(Internal, NoMemo)
                            ELSE reply(OK, [(CHOOSE v \in row : TRUE) EXCEPT !.visibility = req.visibility])
                /\ UNCHANGED nextVisibilityID
           ELSE IF taken
           THEN /\ last' = reply(IF IsDuplicateErr(UniqueViolationText(driver)) THEN AlreadyExists ELSE Internal, NoMemo)
                /\ UNCHANGED <<visibilities, nextVisibilityID>>
           ELSE IF orphan
           THEN /\ last' = reply(Internal, NoMemo)
                /\ UNCHANGED <<visibilities, nextVisibilityID>>
           ELSE /\ visibilities' = visibilities \cup {created}
                /\ nextVisibilityID' = nextVisibilityID + 1
                /\ last' = reply(OK, created)
        /\ UNCHANGED <<driver, classes, nextClassID, members, nextMemberID, templates, nextTemplateID>>

(* ------------------------------ the system ----------------------------- *)

Slots == 1..MaxInflight

\* callers of CreateClass: the classes of a run have user 2 as their creator,
\* which leaves user 1 the administrator who created none and user 3 the
\* user who is neither
CreateCallers == {NoUser, 2}

\* roles an AddClassMember request can carry
AddRoleInputs == {"CLASS_MEMBER_ROLE_UNSPECIFIED", "STUDENT"}

\* the response of the last call is read; the server takes its next request
Return ==
    /\ last # NoCall
    /\ last' = NoCall
    /\ UNCHANGED <<driver, storeVars, inflight>>

\* one request at a time: every handler runs from its first statement to its return
Next ==
    \/ \E caller \in CreateCallers, classId \in ClassIdInputs, reqName \in ReqNameInputs, v \in PbVisibilities :
          last = NoCall /\ CreateClass(caller, classId, reqName, "", "", v, Nil, NoSettings)
    \/ \E caller \in Callers, name \in ClassNameInputs : last = NoCall /\ GetClassCall(caller, name)
    \/ \E caller \in Callers, filter \in FilterInputs, token \in PageTokenInputs, engineOK \in BOOLEAN :
          last = NoCall /\ ListClasses(caller, filter, 0, token, engineOK)
    \/ \E caller \in Callers, name \in ClassNameInputs, mask \in ClassMaskInputs, v \in PbVisibilities :
          last = NoCall /\ UpdateClass(caller, name, mask, "", "", v, Nil, NoSettings)
    \/ \E caller \in Callers, name \in ClassNameInputs : last = NoCall /\ DeleteClass(caller, name)
    \/ \E caller \in Callers, name \in ClassNameInputs, userID \in UserInputs, role \in AddRoleInputs :
          last = NoCall /\ AddClassMember(caller, name, userID, role)
    \/ \E caller \in Callers, name \in MemberNameInputs : last = NoCall /\ RemoveClassMember(caller, name)
    \/ \E caller \in Callers, name \in ClassNameInputs, token \in PageTokenInputs :
          last = NoCall /\ ListClassMembersCall(caller, name, 0, token)
    \/ Return

Spec == Init /\ [][Next]_vars

\* users the AddClassMember requests below name: the creator and another user
RaceUsers == {2, 3}

\* class ids of the requests below: a generated one, or the custom id "a"
CustomClassIdInputs == {Nil, "a"}

\* the handlers that change a class or what belongs to it, one request at a time
NextManage ==
    \/ \E caller \in CreateCallers : last = NoCall /\ CreateClass(caller, Nil, "n1", "", "", "CLASS_PRIVATE", Nil, NoSettings)
    \/ \E caller \in Callers, name \in ClassNameInputs, mask \in ClassMaskInputs :
          last = NoCall /\ UpdateClass(caller, name, mask, "", "", "CLASS_PUBLIC", Nil, NoSettings)
    \/ \E caller \in Callers, name \in ClassNameInputs : last = NoCall /\ DeleteClass(caller, name)
    \/ \E caller \in Callers, name \in ClassNameInputs, userID \in RaceUsers, role \in AddRoleInputs :
          last = NoCall /\ AddClassMember(caller, name, userID, role)
    \/ \E caller \in Callers, name \in MemberNameInputs, role \in PbRoles : last = NoCall /\ UpdateClassMemberRole(caller, name, role)
    \/ \E caller \in Callers, name \in ClassNameInputs, displayName \in NameInputs, color \in ColorInputs :
          last = NoCall /\ CreateClassTagTemplate(caller, name, displayName, color, "")
    \/ \E caller \in Callers, name \in TemplateNameInputs, mask \in TemplateMaskInputs, displayName \in NameInputs, color \in ColorInputs :
          last = NoCall /\ UpdateClassTagTemplate(caller, name, mask, displayName, color, "")
    \/ \E caller \in Callers, name \in TemplateNameInputs : last = NoCall /\ DeleteClassTagTemplate(caller, name)
    \/ Return

SpecManage == Init /\ [][NextManage]_vars

\* requests in parallel: DeleteClass and AddClassMember may be overtaken
\* between their checks and their write
RaceCallers == {NoUser, 2, 3}

NextRace ==
    \/ \E caller \in CreateCallers, classId \in CustomClassIdInputs :
          last = NoCall /\ CreateClass(caller, classId, "n1", "", "", "CLASS_PRIVATE", Nil, NoSettings)
    \/ \E caller \in RaceCallers, name \in ClassNameInputs, s \in Slots : last = NoCall /\ DeleteClassCheck(caller, name, s)
    \/ \E s \in Slots : last = NoCall /\ DeleteClassWrite(s)
    \/ \E caller \in RaceCallers, name \in ClassNameInputs, userID \in RaceUsers, role \in AddRoleInputs, s \in Slots :
          last = NoCall /\ AddClassMemberCheck(caller, name, userID, role, s)
    \/ \E s \in Slots : last = NoCall /\ AddClassMemberWrite(s)
    \/ \E caller \in RaceCallers, name \in MemberNameInputs : last = NoCall /\ RemoveClassMember(caller, name)
    \/ Return

SpecRace == Init /\ [][NextRace]_vars

\* the class of an UpdateClass request: every field differs from what
\* CreateClass stored, so that a write to a field the mask leaves out shows
UpdateClassInputs ==
    {[displayName |-> "n2", description |-> "", visibility |-> "CLASS_PRIVATE", invite |-> "i1",
      settings |-> [NoSettings EXCEPT !.nil = FALSE, !.studentMemoVisibility = {FALSE}]],
     [displayName |-> "", description |-> "", visibility |-> "CLASS_VISIBILITY_UNSPECIFIED", invite |-> "i1",
      settings |-> NoSettings]}

\* classes are created with one set of values and then updated under every mask
NextUpdate ==
    \/ \E caller \in CreateCallers :
          last = NoCall /\ CreateClass(caller, Nil, "n1", "", "d1", "CLASS_PUBLIC", Nil,
                                       [NoSettings EXCEPT !.nil = FALSE, !.studentMemoVisibility = {TRUE}])
    \/ \E caller \in CreateCallers, n \in 1..MaxClasses, mask \in UpdateMaskInputs, class \in UpdateClassInputs :
          last = NoCall /\ UpdateClass(caller, ClassName(GeneratedUID(n)), mask, class.displayName, class.description, class.visibility,
                                       class.invite, class.settings)
    \/ Return

SpecUpdate == Init /\ [][NextUpdate]_vars

\* the n-th class of the table, as CreateClass stores it for user 2 with a
\* generated id and invite code
ListedClass(n, visibility) ==
    [id |-> n, uid |-> GeneratedUID(n), name |-> "n1", description |-> "", creator |-> 2,
     visibility |-> visibility, inviteCode |-> generateInviteCode(n), settings |-> NoStoreSettings]

\* the store after user 2 has created up to MaxListed classes of any visibility
InitListed ==
    /\ driver \in Drivers
    /\ \E n \in 0..MaxListed :
          \E vs \in [1..n -> {ClassVisibilityPublic, ClassVisibilityProtected, ClassVisibilityPrivate}] :
              /\ classes = {ListedClass(i, vs[i]) : i \in 1..n}
              /\ nextClassID = n + 1
    /\ members = {}
    /\ nextMemberID = 1
    /\ templates = {}
    /\ nextTemplateID = 1
    /\ visibilities = {}
    /\ nextVisibilityID = 1
    /\ inflight = [s \in 1..MaxInflight |-> Idle]
    /\ last = NoCall

\* first pages of the class table, asked for by every kind of caller
NextListed ==
    \/ \E caller \in Callers, pageSize \in {1, 2}, token \in PageTokenInputs :
          last = NoCall /\ ListClasses(caller, <<>>, pageSize, token, TRUE)
    \/ Return

SpecListed == InitListed /\ [][NextListed]_vars

\* members join and leave a class, and a client reads the member list page by
\* page: a call with a token is made with the token of the response just read
NextMembers ==
    \/ \E caller \in CreateCallers : last = NoCall /\ CreateClass(caller, Nil, "n1", "", "", "CLASS_PUBLIC", Nil, NoSettings)
    \/ \E n \in 1..MaxClasses, userID \in UserIDs :
          last = NoCall /\ AddClassMember(2, ClassName(GeneratedUID(n)), userID, "STUDENT")
    \/ \E name \in MemberNameInputs : last = NoCall /\ RemoveClassMember(2, name)
    \/ \E caller \in {2, 3}, n \in 1..MaxClasses, pageSize \in {1, 2} :
          last = NoCall /\ ListClassMembersCall(caller, ClassName(GeneratedUID(n)), pageSize, NoPageToken)
    \/ /\ last.op = "ListClassMembers" /\ last.code = OK /\ last.out.next # NoPageToken
       /\ \E c \in classes :
             c.id = last.target /\ ListClassMembersCall(last.caller, ClassName(c.uid), last.pageSize, last.out.next)
    \/ Return

SpecMembers == Init /\ [][NextMembers]_vars

\* CreateClass requests of every shape, from every kind of caller
NextCreate ==
    \/ \E caller \in {NoUser, 2, 3}, classId \in {Nil, "a", "-x"}, reqName \in ReqNameInputs, displayName \in NameInputs,
          v \in {"CLASS_VISIBILITY_UNSPECIFIED", "CLASS_PROTECTED"}, invite \in {Nil, "", "i1"}, settings \in SettingsInputs :
          last = NoCall /\ CreateClass(caller, classId, reqName, displayName, "d1", v, invite, settings)
    \/ Return

SpecCreate == Init /\ [][NextCreate]_vars

\* ListClasses on a filled table with filters of every kind: none, accepted,
\* an identifier outside the catalog, a truncated comparison, a dangling
\* boolean operator, an operator outside the grammar, and raw SQL
NextFilter ==
    \/ \E caller \in Callers, token \in PageTokenInputs, engineOK \in BOOLEAN,
          filter \in {<<>>, <<"visibility", "==", "PUBLIC">>, <<"secret", "==", "x">>, <<"visibility", "==">>,
                      <<"visibility", "==", "PUBLIC", "&&">>, <<"visibility", "LIKE", "P">>, <<"1 = 1">>} :
          last = NoCall /\ ListClasses(caller, filter, 1, token, engineOK)
    \/ Return

SpecFilter == InitListed /\ [][NextFilter]_vars

\* the selected driver builds the statement of a ListClasses or UpdateClass
\* call of the store, for every combination of set and unset fields
NextStatement ==
    \/ \E id \in {NoID, 1}, uid \in {Nil, "a"}, uidList \in {<<>>, <<"a", "b">>}, creatorID \in {NoID, 2},
          visibility \in {Nil, ClassVisibilityPublic}, inviteCode \in {Nil, "i1"}, memberID \in {NoID, 3},
          filters \in {<<>>, <<<<"name", "==", "\"why?\"">>>>}, limit \in {NoLimit, 2}, offset \in {NoLimit, 0} :
          LET find == [id |-> id, uid |-> uid, uidList |-> uidList, creatorID |-> creatorID, visibility |-> visibility,
                       inviteCode |-> inviteCode, memberID |-> memberID, filters |-> filters, orderBy |-> "",
                       limit |-> limit, offset |-> offset]
          IN  /\ last = NoCall
              /\ last' = [op |-> "store.ListClasses", caller |-> NoUser, target |-> NoID, code |-> OK,
                           out |-> ListClassesStatement(driver, find), request |-> find]
              /\ UNCHANGED <<driver, storeVars, inflight>>
    \/ \E uid \in {Nil, "a"}, name \in {Nil, "n2"}, description \in {Nil, ""}, visibility \in {Nil, ClassVisibilityPrivate},
          inviteCode \in {Nil, ""}, settings \in {NoStoreSettings, [NoStoreSettings EXCEPT !.nil = FALSE]} :
          LET update == [id |-> 1, uid |-> uid, name |-> name, description |-> description, visibility |-> visibility,
                         inviteCode |-> inviteCode, settings |-> settings]
              stmt == UpdateClassStatement(driver, update)
          IN  /\ last = NoCall
              /\ last' = [op |-> "store.UpdateClass", caller |-> NoUser, target |-> update.id,
                           code |-> IF stmt.built THEN OK ELSE Internal, out |-> stmt, request |-> update]
              /\ UNCHANGED <<driver, storeVars, inflight>>
    \/ Return

SpecStatement == Init /\ [][NextStatement]_vars

\* memos are shared with a class by every kind of caller, the requests
\* overtaking each other between lookup and write; user 3 joins the class
\* in between
NextVisibility ==
    \/ last = NoCall /\ CreateClass(2, Nil, "n1", "", "", "CLASS_PRIVATE", Nil, NoSettings)
    \/ last = NoCall /\ AddClassMember(2, ClassName(GeneratedUID(1)), 3, "STUDENT")
    \/ \E n \in 1..MaxClasses, s \in Slots,
          req \in {<<NoUser, "memos/", "m1", "CLASS_PUBLIC">>, <<1, "memos/", "m1", "CLASS_PUBLIC">>,
                   <<2, "memos/", "m1", "CLASS_PROTECTED">>, <<3, "memos/", "m1", "CLASS_PRIVATE">>,
                   <<3, "memos/", "m2", "CLASS_PUBLIC">>, <<2, "memos/", "m9", "CLASS_PUBLIC">>,
                   <<2, "users/", "m1", "CLASS_PUBLIC">>, <<2, "memos/", "m1", "CLASS_VISIBILITY_UNSPECIFIED">>} :
          last = NoCall /\ SetClassMemoVisibilityCheck(req[1], ClassName(GeneratedUID(n)), <<req[2], req[3]>>, req[4], TRUE, s)
    \/ \E className \in {ClassName(GeneratedUID(1)), ClassName("a"), <<UserNamePrefix, "a">>}, s \in Slots :
          last = NoCall /\ SetClassMemoVisibilityCheck(2, className, <<"memos/", "m1">>, "CLASS_PUBLIC", FALSE, s)
    \/ \E s \in Slots, engineOK \in BOOLEAN : last = NoCall /\ SetClassMemoVisibilityWrite(s, engineOK)
    \/ Return

SpecVisibility == Init /\ [][NextVisibility]_vars

\* tag templates of a class are created and renamed by requests that
\* overtake each other between their lookup and their write
NextTemplateRace ==
    \/ last = NoCall /\ CreateClass(2, Nil, "n1", "", "", "CLASS_PRIVATE", Nil, NoSettings)
    \/ \E caller \in {2, 3}, displayName \in {"", "n1", "n2"}, s \in Slots :
          last = NoCall /\ CreateClassTagTemplateCheck(caller, ClassName(GeneratedUID(1)), displayName, s)
    \/ \E s \in Slots : last = NoCall /\ CreateClassTagTemplateWrite(s)
    \/ \E caller \in {2, 3}, id \in 1..MaxRaceTemplates, displayName \in {"n1", "n2"},
          mask \in {<<"display_name">>, <<"description">>}, s \in Slots :
          last = NoCall /\ UpdateClassTagTemplateCheck(caller, TemplateName(GeneratedUID(1), id), mask, displayName, "d1", s)
    \/ \E s \in Slots : last = NoCall /\ UpdateClassTagTemplateWrite(s)
    \/ Return

SpecTemplateRace == Init /\ [][NextTemplateRace]_vars

\* the visibility and the invite code of classes are written: requests carry
\* every v1pb.ClassVisibility, "99" standing for a number outside the enum,
\* and update masks that name one of the two fields
NextFields ==
    \/ \E caller \in CreateCallers, v \in PbVisibilities \cup {"99"} :
          last = NoCall /\ CreateClass(caller, Nil, "n1", "", "", v, Nil, NoSettings)
    \/ \E caller \in {NoUser, 2, 3}, n \in 1..MaxListed, mask \in {<<"visibility">>, <<"invite_code">>},
          v \in PbVisibilities \cup {"99"} :
          last = NoCall /\ UpdateClass(caller, ClassName(GeneratedUID(n)), mask, "", "", v, Nil, NoSettings)
    \/ Return

SpecFields == InitListed /\ [][NextFields]_vars

(* ------------------------------ properties ---------------------------- *)

\* TRUE when the tokens sub appear, in order and adjacent, in seq
Contains(seq, sub) ==
    \E i \in 1..(Len(seq) - Len(sub) + 1) : SubSeq(seq, i, i + Len(sub) - 1) = sub

\* the class the last call was aimed at, in the state the call left
LastClass == IF last.target = NoID THEN NoClass ELSE GetClassByID(last.target)

\* TRUE when user has a member row in the class
HasMemberRow(user, classID) == \E m \in members : m.classID = classID /\ m.userID = user

\* C1: for every ListClasses request with a non-empty filter, the text of
\* request.Filter never appears in the SQL text the driver executes: no
\* successful call leaves a query that holds the filter's own tokens
C1_FilterTextNeverInSQL ==
    (last.op = "ListClasses" /\ last.code = OK /\ last.out.filter # <<>>)
        => ~Contains(last.out.query, last.out.filter)

\* C3: GetClass returns a PRIVATE class only to an admin, the creator of the
\* class or a user with a member row in it; every other caller, signed in or
\* not, gets PermissionDenied
C3_PrivateClassOnlyToInsiders ==
    (last.op = "GetClass" /\ LastClass.id # NoID /\ LastClass.visibility = ClassVisibilityPrivate)
        => LET insider == \/ isSuperUser(last.caller)
                          \/ last.caller # NoUser /\ LastClass.creator = last.caller
                          \/ last.caller # NoUser /\ HasMemberRow(last.caller, LastClass.id)
           IN  /\ last.code = OK => insider /\ last.out = LastClass
               /\ ~insider => last.code = PermissionDenied /\ last.out = NoClass

\* a signed-in user without admin role, who neither created the PRIVATE class
\* nor has a member row in it, asked for it and was refused
C3_Witness ==
    /\ last.op = "GetClass" /\ last.code = PermissionDenied
    /\ LastClass.id # NoID /\ LastClass.visibility = ClassVisibilityPrivate
    /\ last.caller # NoUser /\ ~isSuperUser(last.caller) /\ LastClass.creator # last.caller
    /\ ~HasMemberRow(last.caller, LastClass.id)
    /\ \E m \in members : m.classID = LastClass.id

\* C4: for every caller and every filter, each class of a ListClasses response
\* is one canViewClass lets the caller view, whatever the filter adds to the
\* WHERE clause; a caller who is not signed in receives PUBLIC classes only
C4_ListedClassesAreViewable ==
    (last.op = "ListClasses" /\ last.code = OK)
        => \A i \in 1..Len(last.out.classes) :
              LET class == last.out.classes[i]
              IN  /\ class \in classes
                  /\ canViewClass(last.caller, class).view
                  /\ last.caller = NoUser => class.visibility = ClassVisibilityPublic

\* a caller who is not signed in sent a filter whose OR reaches past the
\* visibility condition of the query, and the class it matched was withheld
C4_Witness ==
    /\ last.op = "ListClasses" /\ last.code = OK /\ last.caller = NoUser
    /\ Contains(last.out.filter, <<"||">>)
    /\ last.out.classes = <<>>
    /\ \E c \in classes : c.visibility # ClassVisibilityPublic

\* C5: a PROTECTED class is visible to its members only: GetClass on it by a
\* signed-in user who is neither admin, creator nor member is denied
C5_ProtectedClassOnlyToMembers ==
    (/\ last.op = "GetClass" /\ LastClass.id # NoID /\ LastClass.visibility = ClassVisibilityProtected
     /\ last.caller # NoUser /\ ~isSuperUser(last.caller) /\ LastClass.creator # last.caller
     /\ ~HasMemberRow(last.caller, LastClass.id))
        => last.code = PermissionDenied

\* an admin, or the creator of the class
IsManager(user, class) ==
    user # NoUser /\ class.id # NoID /\ (UserRole(user) = "ADMIN" \/ class.creator = user)

\* the handlers C2 names
ManageOps == {"UpdateClass", "DeleteClass", "AddClassMember", "UpdateClassMemberRole",
              "CreateClassTagTemplate", "UpdateClassTagTemplate", "DeleteClassTagTemplate"}

\* the class a call was aimed at: the class itself, or the class of the member
\* or tag template its name stands for
TargetClass(call) ==
    IF call.target = NoID THEN NoClass
    ELSE IF call.op \in {"RemoveClassMember", "UpdateClassMemberRole"}
         THEN (IF GetClassMember(call.target).id = NoID THEN NoClass ELSE GetClassByID(GetClassMember(call.target).classID))
    ELSE IF call.op \in {"UpdateClassTagTemplate", "DeleteClassTagTemplate"}
         THEN (IF GetClassTagTemplate(call.target).id = NoID THEN NoClass ELSE GetClassByID(GetClassTagTemplate(call.target).classID))
    ELSE GetClassByID(call.target)

\* C2 as stated: UpdateClass, DeleteClass, AddClassMember, UpdateClassMemberRole
\* and Create/Update/DeleteClassTagTemplate change the store only when the
\* signed-in caller is an admin or the creator of the target class; for any
\* other signed-in caller they return PermissionDenied and leave the store
\* unchanged
C2_OthersGetPermissionDenied ==
    [][(last' # NoCall /\ last'.op \in ManageOps)
         => /\ storeVars' # storeVars => IsManager(last'.caller, TargetClass(last'))
            /\ (last'.caller # NoUser /\ TargetClass(last').id # NoID /\ ~IsManager(last'.caller, TargetClass(last')))
                  => last'.code = PermissionDenied /\ UNCHANGED storeVars]_vars

\* C2, amended: the same handlers change the store only when the signed-in
\* caller is an admin or the creator of the target class; for any other
\* signed-in caller they leave the store unchanged and return PermissionDenied,
\* or InvalidArgument when the request fails a validation that precedes the
\* permission check
C2_OnlyManagersChangeTheStore ==
    [][(last' # NoCall /\ last'.op \in ManageOps)
         => /\ storeVars' # storeVars => IsManager(last'.caller, TargetClass(last'))
            /\ (last'.caller # NoUser /\ TargetClass(last').id # NoID /\ ~IsManager(last'.caller, TargetClass(last')))
                  => last'.code \in {PermissionDenied, InvalidArgument} /\ UNCHANGED storeVars]_vars

\* a signed-in user who is neither admin nor creator asked to change the role
\* of a member of an existing class and was refused
C2_Witness ==
    /\ last.op = "UpdateClassMemberRole" /\ last.code = PermissionDenied
    /\ last.caller # NoUser /\ TargetClass(last).id # NoID /\ ~IsManager(last.caller, TargetClass(last))

C7_NeverDeletesClassWithMembers ==
    [][last'.op = "DeleteClass"
         => \A c \in classes : (\E m \in members : m.classID = c.id) => (c \in classes' /\ members' = members)]_vars

\* C8: a class is retrievable by GetClass, by every caller allowed to view it,
\* under the name CreateClass returned, from its creation until a successful
\* DeleteClass; after that GetClass for the name returns an error and no class
C8_RetrievableUntilDeleted ==
    \* CreateClass returns the name of the row it stored
    /\ []((last.op = "CreateClass" /\ last.code = OK)
            => \E c \in classes : c.id = last.target /\ last.out = ClassName(c.uid))
    \* every stored class is found under its name, and GetClass returns it to
    \* every caller allowed to view it
    /\ [](\A c \in classes : ResolveClass(ClassName(c.uid)).id = c.id)
    /\ []((last.op = "GetClass" /\ LastClass.id # NoID /\ canViewClass(last.caller, LastClass).view)
            => last.code = OK /\ last.out = LastClass)
    \* a class keeps its name while it is stored, and only a successful DeleteClass removes it
    /\ [][\A c \in classes :
            IF \E d \in classes' : d.id = c.id
            THEN \E d \in classes' : d.id = c.id /\ d.uid = c.uid
            ELSE last'.op = "DeleteClass" /\ last'.code = OK /\ last'.target = c.id]_vars
    \* after a successful DeleteClass the name finds nothing
    /\ []((last.op = "DeleteClass" /\ last.code = OK)
            => \A u \in Callers : GetClassCode(u, ClassName(last.out.uid)) = NotFound)

\* a DeleteClass has just succeeded, and GetClass under the name of the class
\* it removed finds nothing
C8_Witness ==
    /\ last.op = "DeleteClass" /\ last.code = OK
    /\ ResolveClass(ClassName(last.out.uid)) = NoClass
    /\ GetClassCode(last.caller, ClassName(last.out.uid)) = NotFound

\* C9: no sequence of operations produces a class_member row whose user is
\* the creator of the class: AddClassMember naming the creator fails with
\* AlreadyExists, and ListClassMembers never lists the creator
C9_CreatorHasNoMemberRow ==
    /\ \A m \in members : \A c \in classes : m.classID = c.id => m.userID # c.creator
    /\ (last.op = "AddClassMember" /\ IsManager(last.caller, LastClass) /\ last.out.userID = LastClass.creator)
          => last.code = AlreadyExists
    /\ (last.op = "ListClassMembers" /\ last.code = OK)
          => \A i \in 1..Len(last.out.members) : last.out.members[i].userID # LastClass.creator

\* a manager asked to add the creator of the class as a member and was told
\* the user is one already
C9_Witness ==
    /\ last.op = "AddClassMember" /\ last.code = AlreadyExists
    /\ IsManager(last.caller, LastClass) /\ last.out.userID = LastClass.creator
    /\ members = {}

\* C10: RemoveClassMember deletes a member row only when the signed-in caller
\* is an admin, the creator of the class or the member being removed; any
\* other signed-in caller gets PermissionDenied and the row stays
C10_RemoveOnlyByManagerOrSelf ==
    [][last'.op = "RemoveClassMember"
         => LET row == GetClassMember(last'.target)
                allowed == IsManager(last'.caller, TargetClass(last')) \/ last'.caller = row.userID
            IN  /\ members' # members
                     => (row.id # NoID /\ last'.caller # NoUser /\ allowed /\ members' = members \ {row})
                /\ (row.id # NoID /\ TargetClass(last').id # NoID /\ last'.caller # NoUser /\ ~allowed)
                     => (last'.code = PermissionDenied /\ members' = members)]_vars

\* a signed-in user who is neither admin, creator nor the member named asked
\* to remove the member and was refused; the row is still there
C10_Witness ==
    /\ last.op = "RemoveClassMember" /\ last.code = PermissionDenied
    /\ last.caller # NoUser /\ GetClassMember(last.target).id # NoID
    /\ GetClassMember(last.target).userID # last.caller

\* C11: after a successful RemoveClassMember the user is no longer a member of
\* the class: the removed row is gone and its id is never handed out again, a
\* further RemoveClassMember for the same member name by any signed-in caller
\* answers NotFound, every RemoveClassMember that answers NotFound leaves the
\* store unchanged, and AddClassMember for the same user and class by a manager
\* is accepted again and inserts a fresh row for that user.
C11_RemovedMemberIsGoneAndCanRejoin ==
    /\ [](\A m \in members : m.id < nextMemberID)
    /\ []((last.op = "RemoveClassMember" /\ last.code = OK) =>
            LET row == last.out
                class == GetClassByID(row.classID)
            IN  /\ row.id # NoID /\ row.id < nextMemberID
                /\ class.id = row.classID
                /\ ~HasMemberRow(row.userID, row.classID)
                /\ ~isClassMember(row.userID, class.id).member
                /\ \A u \in UserIDs :
                      /\ RemoveClassMemberCode(u, MemberName(class.uid, row.id)) = NotFound
                      /\ IsManager(u, class) =>
                            /\ AddClassMemberCode(u, ClassName(class.uid), row.userID, "STUDENT") = OK
                            /\ CreateClassMemberCode(row.classID, row.userID) = OK)
    /\ [](\A u \in UserIDs, n \in 1..MaxMembers :
            (~NotImplemented(driver) /\ GetClassMember(n).id = NoID) =>
                \A cu \in {c.uid : c \in classes} \cup {"a"} :
                    RemoveClassMemberCode(u, MemberName(cu, n)) = NotFound)
    /\ [][(last'.op = "RemoveClassMember" /\ last'.code = NotFound) => UNCHANGED storeVars]_vars
    /\ [][(last'.op = "AddClassMember" /\ last'.code = OK) =>
            /\ last'.out.id = nextMemberID /\ nextMemberID' = nextMemberID + 1
            /\ members' = members \cup {last'.out}
            /\ last'.out \notin members
            /\ last'.out.classID = last'.target]_vars

\* a member was removed, the store still has room for that user to rejoin
C11_Witness ==
    /\ last.op = "RemoveClassMember" /\ last.code = OK
    /\ last.out.userID = 3 /\ nextMemberID <= MaxMembers
    /\ AddClassMemberCode(2, ClassName(GetClassByID(last.out.classID).uid), 3, "STUDENT") = OK
    /\ RemoveClassMemberCode(2, MemberName(GetClassByID(last.out.classID).uid, last.out.id)) = NotFound

\* C12: a successful UpdateClassMemberRole sets the member's role to the
\* requested role, in the stored row and in the returned message, and leaves
\* the member's resource name, class and user unchanged; no other row and no
\* other table changes; requesting the role the member already has succeeds
\* and changes nothing.
C12_RoleUpdateChangesOnlyTheRole ==
    [][(last'.op = "UpdateClassMemberRole" /\ last'.code = OK) =>
        \A name \in MemberNameInputs, pbRole \in PbRoles :
          (last = NoCall /\ UpdateClassMemberRole(last'.caller, name, pbRole)) =>
              LET old == GetClassMember(ExtractClassMemberIDFromName(name))
                  new == last'.out
                  before == convertClassMemberFromStore(old)
                  after == convertClassMemberFromStore(new)
              IN  /\ old \in members
                  /\ new.role = convertClassMemberRoleToStore(pbRole)
                  /\ after.role = pbRole
                  /\ new.id = old.id /\ new.classID = old.classID /\ new.userID = old.userID
                  /\ after.name = before.name /\ after.class = before.class /\ after.user = before.user
                  /\ members' = (members \ {old}) \cup {new}
                  /\ UNCHANGED <<classes, nextClassID, nextMemberID, templates, nextTemplateID>>
                  /\ (before.role = pbRole) => (new = old /\ UNCHANGED storeVars)]_vars

\* a member's role was changed from the role it joined with
C12_Witness ==
    /\ last.op = "UpdateClassMemberRole" /\ last.code = OK
    /\ last.out.role = "TEACHER" /\ last.out \in members
    /\ convertClassMemberFromStore(last.out).role = "TEACHER"
    /\ convertClassMemberFromStore(last.out).name = MemberName(GetClassByID(last.out.classID).uid, last.out.id)

\* the fields of a Class message
ClassFields == {"name", "uid", "displayName", "description", "creator", "visibility", "inviteCode", "settings"}

\* the fields in which two Class messages differ
ChangedFields(before, after) == {f \in ClassFields : before[f] # after[f]}

\* the message field a mask path names
PathField(path) ==
    CASE path = "display_name" -> "displayName"
      [] path = "invite_code" -> "inviteCode"
      [] OTHER -> path

\* the message field a mask path writes: the path name is an alias of display_name
PathTarget(path) == IF path = "name" THEN "displayName" ELSE PathField(path)

C14_FullPageAndTokenWhenMoreExist ==
    (/\ last.op = "ListClasses" /\ last.code = OK
     /\ last.token = NoPageToken /\ last.pageSize >= 1 /\ last.out.filter = <<>>
     /\ Cardinality({c \in classes : canViewClass(last.caller, c).view}) > last.pageSize)
        => (Len(last.out.classes) = last.pageSize /\ last.out.next # NoPageToken)

\* the pages a client collects from ListClassMembers when it starts with a
\* page size and calls again with each next_page_token, at most fuel + 1 calls
RECURSIVE WalkMembers(_, _, _, _)
WalkMembers(name, pageSize, token, fuel) ==
    LET page == ListClassMembersResponse(name, pageSize, token)
    IN  IF page.next = NoPageToken \/ fuel = 0 THEN <<page>>
        ELSE <<page>> \o WalkMembers(name, pageSize, page.next, fuel - 1)

\* the member rows of the first n pages, in the order received
RECURSIVE RowsOfPages(_, _)
RowsOfPages(pages, n) == IF n = 0 THEN <<>> ELSE RowsOfPages(pages, n - 1) \o pages[n].members

CreatedClass == convertClassFromStore(CHOOSE c \in classes : c.id = last.target)

\* C16: the class returned by CreateClass has a name equal to the name given
\* in the class of the request
C16_ReturnedNameIsRequestName ==
    (last.op = "CreateClass" /\ last.code = OK) => CreatedClass.name = <<last.request.name>>

\* the optional fields of a ClassSettings message
SettingsFields ==
    {"studentMemoVisibility", "allowAnonymous", "defaultStudentVisibility", "enableTagTemplates", "maxMembers",
     "requireMemberApproval"}

\* C17: the class returned by a successful CreateClass echoes the request:
\* the display name (the request's name when none is given), the description,
\* the visibility, the creator users/<caller id>, the supplied invite code (a
\* generated non-empty one when none is supplied), and every settings field
\* that is set with its value, while unset settings fields stay unset
C17_CreatedClassEchoesRequest ==
    (last.op = "CreateClass" /\ last.code = OK) =>
        LET req == last.request
            class == CreatedClass
        IN  /\ \E c \in classes : c.id = last.target
            /\ class.displayName = (IF req.displayName # "" THEN req.displayName ELSE req.name)
            /\ class.displayName # ""
            /\ class.description = req.description
            /\ class.visibility = req.visibility
            /\ class.creator = <<UserNamePrefix, Digits[last.caller]>>
            /\ IF req.invite # Nil /\ req.invite # "" THEN class.inviteCode = req.invite ELSE class.inviteCode # ""
            /\ class.name = last.out
            /\ \A f \in SettingsFields : class.settings[f] = req.settings[f]
            /\ req.settings.nil => class.settings.nil

\* a class was created from a request with an invite code and several settings
C17_Witness ==
    /\ last.op = "CreateClass" /\ last.code = OK /\ last.caller = 3
    /\ last.request.displayName = "" /\ last.request.invite = "i1"
    /\ last.request.settings.maxMembers = {30} /\ last.request.settings.studentMemoVisibility = {}
    /\ CreatedClass.settings.maxMembers = {30} /\ CreatedClass.settings.studentMemoVisibility = {}
    /\ CreatedClass.inviteCode = "i1" /\ CreatedClass.displayName = "n1"

\* C20: only teachers and administrators can create classes: a CreateClass
\* request that passes validation, from a signed-in user who is neither an
\* administrator nor TEACHER in any class, is answered PermissionDenied and
\* creates no class
C20_OnlyTeachersAndAdminsCreate ==
    (/\ last.op = "CreateClass" /\ last.caller # NoUser /\ last.code # InvalidArgument
     /\ ~isSuperUser(last.caller)
     /\ ~\E m \in members : m.userID = last.caller /\ m.role = "TEACHER")
        => (last.code = PermissionDenied /\ ~\E c \in classes : c.creator = last.caller)

\* C18: after an UpdateClass whose request carries settings together with the
\* update mask [display_name, description, visibility], the returned class
\* has non-nil settings that reflect the settings values of the request
C18_SettingsOfRequestReturned ==
    [][(/\ last'.op = "UpdateClass" /\ last'.code = OK
        /\ last'.paths = <<"display_name", "description", "visibility">>) =>
          \A class \in UpdateClassInputs, n \in 1..MaxClasses :
              (/\ last = NoCall
               /\ ~class.settings.nil
               /\ UpdateClass(last'.caller, ClassName(GeneratedUID(n)), last'.paths, class.displayName, class.description,
                              class.visibility, class.invite, class.settings)) =>
                  /\ ~convertClassFromStore(last'.out).settings.nil
                  /\ \A f \in SettingsFields : convertClassFromStore(last'.out).settings[f] = class.settings[f]]_vars

\* C19: a user holding the TEACHER role in the member table of a class has
\* full control over it: AddClassMember, UpdateClassMemberRole and the tag
\* template mutations on that class are not refused for lack of permission,
\* even when that user is neither admin nor creator of the class
C19_TeacherMemberManagesClass ==
    (/\ last.op \in {"AddClassMember", "UpdateClassMemberRole", "CreateClassTagTemplate", "UpdateClassTagTemplate",
                     "DeleteClassTagTemplate"}
     /\ last.caller # NoUser /\ TargetClass(last).id # NoID
     /\ ~isSuperUser(last.caller) /\ TargetClass(last).creator # last.caller
     /\ \E m \in members : m.classID = TargetClass(last).id /\ m.userID = last.caller /\ m.role = "TEACHER")
        => last.code # PermissionDenied
\* C21: a ListClasses whose filter fails validation, whatever the failure,
\* returns InvalidArgument with no query sent to the store and no class in
\* the response.
C21_InvalidFilterRejectedOutright ==
    (last.op = "ListClasses" /\ last.filter # <<>> /\ ~validateFilter(driver, last.filter))
        => /\ last.code = InvalidArgument
           /\ last.out.query = <<>>
           /\ last.out.args = <<>>
           /\ last.out.classes = <<>>
           /\ last.out.next = NoPageToken

\* a rejected filter on a table that holds a class the caller could have been shown
C21_Witness ==
    /\ last.op = "ListClasses"
    /\ last.filter = <<"visibility", "==", "PUBLIC", "&&">>
    /\ last.token = NoPageToken
    /\ last.code = InvalidArgument
    /\ \E c \in classes : canViewClass(last.caller, c).view
\* C22: the empty filter is no always-true filter. validateClassFilter
\* refuses it before the compiler is called, and a ListClasses without filter
\* is not turned down for its filter and sends a query whose WHERE clause
\* holds the constant condition and, for an anonymous caller, the visibility
\* condition, and nothing else.
C22_EmptyFilterIsNoFilter ==
    /\ validateClassFilter(driver, <<>>) = [ok |-> FALSE, compiled |-> FALSE]
    /\ (last.op = "ListClasses" /\ last.filter = <<>>)
          => /\ last.code = (IF last.token.ok THEN OK ELSE InvalidArgument)
             /\ last.code = OK
                   => /\ last.out.query = <<"SELECT * FROM class WHERE", "1 = 1">>
                                              \o (IF last.caller = NoUser THEN <<"AND", "visibility", "=", "?">> ELSE <<>>)
                                              \o <<"ORDER BY", "created_ts DESC", "LIMIT", "?", "OFFSET", "?">>
                      /\ last.out.args = (IF last.caller = NoUser THEN <<ClassVisibilityPublic>> ELSE <<>>) \o <<2, 0>>

\* a ListClasses without filter that returned a class
C22_Witness ==
    /\ last.op = "ListClasses"
    /\ last.filter = <<>>
    /\ last.code = OK
    /\ last.out.classes # <<>>
\* TRUE for the tokens an engine reads as the marker of an argument
IsPlaceholder(tok) == tok = "?" \/ \E n \in 1..Len(Digits) : tok = "$" \o Digits[n]

\* the markers of a statement text, in the order they appear
Markers(text) == SelectSeq(text, IsPlaceholder)

\* the field of a FindClass or UpdateClass a column of the statement stands for
ColumnValue(request, col) ==
    CASE col = "id" -> request.id
      [] col = "uid" -> request.uid
      [] col = "creator_id" -> request.creatorID
      [] col = "visibility" -> request.visibility
      [] col = "invite_code" -> request.inviteCode
      [] col = "user_id" -> request.memberID
      [] col = "name" -> request.name
      [] col = "description" -> request.description
      [] col = "settings" -> SettingsColumn(request.settings)

\* C23: every statement a class driver builds for ListClasses or UpdateClass
\* has as many argument markers as arguments; the postgres driver numbers
\* them $1..$n in the order of the text, the other two write ?; and the
\* k-th marker stands where the column of the k-th argument is compared.
C23_PlaceholdersMatchArguments ==
    (last.op \in {"store.ListClasses", "store.UpdateClass"} /\ last.out.built)
        => LET text == last.out.text
               args == last.out.args
           IN  /\ Len(Markers(text)) = Len(args)
               /\ \A k \in 1..Len(Markers(text)) :
                     Markers(text)[k] = (IF driver = "postgres" THEN "$" \o Digits[k] ELSE "?")
               /\ \A p \in 3..Len(text) :
                     (IsPlaceholder(text[p]) /\ text[p - 1] = "=")
                         => args[Len(Markers(SubSeq(text, 1, p)))] = ColumnValue(last.request, text[p - 2])

\* the postgres driver has built a query with every field set, ten
\* arguments, and a filter whose literal holds a question mark
C23_Witness ==
    /\ driver = "postgres"
    /\ last.op = "store.ListClasses"
    /\ Len(last.out.args) = 10
    /\ last.request.filters # <<>>
    /\ last.out.text[Len(last.out.text)] = "$10"
\* TRUE when the user may share the memo with the class: an administrator,
\* the creator of the class, or the creator of the memo who has a member row
MaySetVisibility(user, class, memo) ==
    /\ user # NoUser
    /\ \/ IsManager(user, class)
       \/ memo.creator = user /\ HasMemberRow(user, class.id)

C25_TemplateNamesUniqueAndAlreadyExists ==
    /\ [](\A t, u \in templates : t.classID = u.classID /\ t.name = u.name => t = u)
    /\ [][\A c \in {c \in classes : last'.op \in {"CreateClassTagTemplate", "UpdateClassTagTemplate"} /\ c.id = last'.class} :
              /\ canManageClass(last'.caller, c)
              /\ \E t \in templates :
                    /\ t.classID = c.id
                    /\ t.name = last'.name
                    /\ last'.op = "UpdateClassTagTemplate" => t.id # last'.target
              => last'.code = AlreadyExists /\ templates' = templates]_vars

\* C27: a DeleteClass and an AddClassMember for one class never both
\* succeed: a DeleteClass that succeeds, having seen the class without
\* members, removes no member row that an AddClassMember put there meanwhile
C27_DeleteAndAddNeverBothSucceed ==
    [][last'.op = "DeleteClass" /\ last'.code = OK => \A m \in members : m.classID # last'.target]_vars

\* C28: an UpdateClass by a manager of the class, with the update mask
\* [invite_code] and no invite code in the request, succeeds and leaves the
\* class without invite code, whatever invite codes the other classes hold
C28_ClearingInviteCodeAlwaysSucceeds ==
    [][\A c \in {c \in classes : last'.op = "UpdateClass" /\ c.id = last'.target}, v \in PbVisibilities :
          (/\ last'.paths = <<"invite_code">>
           /\ canManageClass(last'.caller, c)
           /\ UpdateClass(last'.caller, ClassName(c.uid), last'.paths, "", "", v, Nil, NoSettings)) =>
              /\ last'.code = OK
              /\ last'.out.inviteCode = ""
              /\ \A d \in classes' : d.id = c.id => d.inviteCode = ""]_vars

\* C29: an UpdateClassTagTemplate by a manager of the class, with the update
\* mask [description], succeeds and returns the template with the
\* description of the request
C29_DescriptionOfTemplateUpdated ==
    [][\A c \in {c \in classes : last'.op = "UpdateClassTagTemplate" /\ c.id = last'.class} :
          (/\ last'.paths = <<"description">>
           /\ canManageClass(last'.caller, c)
           /\ \E t \in templates : t.id = last'.target) =>
              /\ last'.code = OK
              /\ last'.out.description = last'.description]_vars

\* C30 as stated: the stored visibility of every class is PUBLIC, PROTECTED
\* or PRIVATE, and every CreateClass or UpdateClass request whose visibility
\* is unspecified or unknown is rejected with InvalidArgument and stores or
\* changes nothing
C30_InvalidVisibilityAlwaysRejected ==
    /\ [](\A c \in classes : c.visibility \in {ClassVisibilityPublic, ClassVisibilityProtected, ClassVisibilityPrivate})
    /\ [][\A v \in {"CLASS_VISIBILITY_UNSPECIFIED", "99"} :
              /\ (/\ last'.op = "CreateClass"
                  /\ CreateClass(last'.caller, Nil, "n1", "", "", v, Nil, NoSettings)) =>
                     last'.code = InvalidArgument /\ classes' = classes
              /\ \A c \in {c \in classes : last'.op = "UpdateClass" /\ c.id = last'.target} :
                     UpdateClass(last'.caller, ClassName(c.uid), last'.paths, "", "", v, Nil, NoSettings) =>
                        last'.code = InvalidArgument /\ classes' = classes]_vars

\* C30: the stored visibility of every class is PUBLIC, PROTECTED or
\* PRIVATE; a CreateClass request of a signed-in user, and an UpdateClass
\* request of a manager of the class whose update mask names visibility, is
\* rejected with InvalidArgument and stores or changes nothing when its
\* visibility is unspecified or unknown
C30_StoredVisibilityIsValid ==
    /\ [](\A c \in classes : c.visibility \in {ClassVisibilityPublic, ClassVisibilityProtected, ClassVisibilityPrivate})
    /\ [][\A v \in {"CLASS_VISIBILITY_UNSPECIFIED", "99"} :
              /\ (/\ last'.op = "CreateClass" /\ last'.caller # NoUser
                  /\ CreateClass(last'.caller, Nil, "n1", "", "", v, Nil, NoSettings)) =>
                     last'.code = InvalidArgument /\ classes' = classes
              /\ \A c \in {c \in classes : last'.op = "UpdateClass" /\ c.id = last'.target} :
                     (/\ last'.paths = <<"visibility">>
                      /\ canManageClass(last'.caller, c)
                      /\ UpdateClass(last'.caller, ClassName(c.uid), last'.paths, "", "", v, Nil, NoSettings)) =>
                        last'.code = InvalidArgument /\ classes' = classes]_vars

\* an UpdateClass of a manager naming visibility has been rejected, and a
\* CreateClass before it stored a class
C30_Witness ==
    /\ last.op = "UpdateClass" /\ last.code = InvalidArgument /\ last.paths = <<"visibility">>
    /\ \E c \in classes : c.id = last.target /\ canManageClass(last.caller, c)

====
